---- MODULE Spec2Model ----
(***************************************************************************)
(* Estimates and invoices of the print-shop invoicing backend:             *)
(* routes/estimates.js, routes/invoices.js and the tax rate of             *)
(* routes/storeInfoRoutes.js, over a relational store with READ COMMITTED  *)
(* transactions.                                                           *)
(*                                                                         *)
(* Money is an integer number of units.  A tax rate and a percent discount *)
(* are integer hundredths (0.06 is 6), so a total, which is a product of   *)
(* an amount, a (1 - p) factor and a (1 + rate) factor, is carried in      *)
(* units of 1/Scale.  JavaScript floating point rounding is not modelled.  *)
(***************************************************************************)
EXTENDS Integers, Sequences, FiniteSets, TLC

\* ------------------------------------------------------------------ bounds
\* number of estimate ids / invoice ids the serial sequences hand out
MaxEst == 2
MaxInv == 2

\* ------------------------------------------------------- program constants
EstimateNotesCap == 150
InvoiceNotesCap == 2000
\* COALESCE(tax_rate, 0.06) and `?? 0.06`, in hundredths
DefaultTaxRate == 6
\* clamp(discVal, 0, 100) of a percent discount
MaxPercent == 100
\* clamp(discVal, 0, 1e12) of an amount discount.  1e12 does not fit the
\* checker's integers; the cap is expressed in a money unit of 1e12/40 so
\* that totals above and below the cap are both reachable.
MaxAmountDiscount == 40

Hundred == 10 * 10
Scale == Hundred * Hundred

Users == {1, 2}

Min(a, b) == IF a < b THEN a ELSE b
Max(a, b) == IF a > b THEN a ELSE b

\* ---------------------------------------------------- JavaScript values
Undef == [t |-> "undef"]
Null == [t |-> "null"]
NaN == [t |-> "nan"]
Num(n) == [t |-> "num", v |-> n]
Str(s) == [t |-> "str", v |-> s]
Bool(b) == [t |-> "bool", v |-> b]

\* the numeric strings the requests of this model use
StrToNum(s) ==
  CASE s = "" -> Num(0)
    [] s = "0" -> Num(0)
    [] s = "1" -> Num(1)
    [] s = "2" -> Num(2)
    [] OTHER -> NaN

\* Number(v) and unary plus
Number(v) ==
  CASE v.t = "num" -> v
    [] v.t = "null" -> Num(0)
    [] v.t = "bool" -> (IF v.v THEN Num(1) ELSE Num(0))
    [] v.t = "str" -> StrToNum(v.v)
    [] OTHER -> NaN

\* parseInt(v, 10): the argument is turned into a string first, so null,
\* undefined and booleans give NaN; a string is read up to its first
\* character that is not a digit
ParseInt(v) ==
  CASE v.t = "num" -> v
    [] v.t = "str" -> (IF v.v = "" THEN NaN
                      ELSE IF v.v = "1abc" THEN Num(1) ELSE StrToNum(v.v))
    [] OTHER -> NaN

Truthy(v) ==
  CASE v.t = "num" -> v.v # 0
    [] v.t = "str" -> v.v # ""
    [] v.t = "bool" -> v.v
    [] v.t = "text" -> v.lead + v.len + v.trail > 0
    [] OTHER -> FALSE

\* a || b
Or(a, b) == IF Truthy(a) THEN a ELSE b
\* a ?? b
Nullish(a, b) == IF a.t \in {"undef", "null"} THEN b ELSE a

IsFinite(v) == v.t = "num"

\* Number(v) || 0
NumberOr0(v) == Or(Number(v), Num(0)).v

\* Math.min(Math.max(Number(v) || 0, min), max), v already a number
clamp(v, lo, hi) == Min(Max(v, lo), hi)

\* String(v || '').toLowerCase() of a discount type
LowerCase(v) ==
  IF ~Truthy(v) THEN Str("")
  ELSE IF v = Str("PERCENT") THEN Str("percent") ELSE v

\* toString of a label-like value
toString(v) ==
  CASE v.t \in {"undef", "null"} -> Str("")
    [] v.t = "num" -> Str("<number>")
    [] OTHER -> v

\* String.prototype.trim on the labels of this model: "  " stands for a
\* whitespace-only label
TrimStr(s) == IF s.v = "  " THEN Str("") ELSE s

\* a coercion that knows booleans and numbers only
boolishNoStrings(v, def) ==
  CASE v.t = "bool" -> v.v
    [] v = Num(0) -> FALSE
    [] OTHER -> def

boolish(v, def) ==
  CASE v.t = "bool" -> v.v
    [] v = Num(0) \/ v = Str("0") \/ v = Str("false") -> FALSE
    [] v = Num(1) \/ v = Str("1") \/ v = Str("true") -> TRUE
    [] OTHER -> def

toBool(v, def) ==
  CASE v.t = "bool" -> v.v
    [] v.t \in {"undef", "null"} -> def
    [] v.t = "num" -> v.v # 0
    [] v.t = "nan" -> TRUE
    [] v.t = "str" -> (IF v.v = "FALSE" THEN "false" ELSE v.v) \notin {"false", "0", "no", "off"}
    [] OTHER -> def

\* ------------------------------------------------------------ note texts
\* A note is a text of lead + len + trail characters: `lead` whitespace
\* characters, then the first `len` characters of the content called `id`,
\* then `trail` whitespace characters.
Text(id, lead, len, trail) ==
  [t |-> "text", id |-> id, lead |-> lead, len |-> len, trail |-> trail]
EmptyText == Text(0, 0, 0, 0)
TextLen(x) == x.lead + x.len + x.trail

\* toString of a notes value
NotesToString(v) == IF v.t \in {"undef", "null"} THEN EmptyText ELSE v

Trim(x) == IF x.len = 0 THEN EmptyText ELSE Text(x.id, 0, x.len, 0)

\* x.slice(0, k)
Slice(x, k) ==
  IF k >= TextLen(x) THEN x
  ELSE IF k <= x.lead THEN Text(0, k, 0, 0)
  ELSE IF k <= x.lead + x.len THEN Text(x.id, x.lead, k - x.lead, 0)
  ELSE Text(x.id, x.lead, x.len, k - x.lead - x.len)

\* ------------------------------------------------------------- the store
VARIABLES
  db,         \* the six document tables, as row versions
  seq,        \* the serial sequences of estimates.id and invoices.id
  storeInfo,  \* store_info, per user: "none" or a row with its tax_rate
  catalog,    \* product_variations joined with products, by variation id
  variant,    \* which version of the route files is deployed
  req         \* per request slot: the request, its position and its locals

vars == <<db, seq, storeInfo, catalog, variant, req>>

\* Row versions.  xmin is 0 for a committed row and p for a row written by
\* the open transaction of request p; xmax is 0 for a live row and p for a
\* row deleted (or superseded by an UPDATE) by the open transaction of p,
\* which holds the row lock until it ends.
Vis(r, p) == r.xmin \in {0, p} /\ r.xmax # p
LockedByOther(r, p) == r.xmax \notin {0, p}


\* a statement that writes a row locked by another transaction waits
BlockedSet(rows, Match(_), p) ==
  \E r \in rows : Vis(r, p) /\ Match(r) /\ LockedByOther(r, p)
BlockedSeq(rows, Match(_), p) ==
  \E i \in 1..Len(rows) : Vis(rows[i], p) /\ Match(rows[i]) /\ LockedByOther(rows[i], p)

\* DELETE FROM t WHERE Match
DeleteSeq(rows, Match(_), p) ==
  LET kept == SelectSeq(rows, LAMBDA r : ~(Vis(r, p) /\ Match(r) /\ r.xmin = p))
  IN [i \in 1..Len(kept) |->
        IF Vis(kept[i], p) /\ Match(kept[i]) THEN [kept[i] EXCEPT !.xmax = p] ELSE kept[i]]

DeleteSet(rows, Match(_), p) ==
  {IF Vis(r, p) /\ Match(r) THEN [r EXCEPT !.xmax = p] ELSE r :
     r \in {x \in rows : ~(Vis(x, p) /\ Match(x) /\ x.xmin = p)}}

\* UPDATE t SET ... WHERE Match; Set(r) is the new row
UpdateSet(rows, Match(_), Set(_), p) ==
  LET hit == {r \in rows : Vis(r, p) /\ Match(r)}
  IN (rows \ hit)
       \cup {[r EXCEPT !.xmax = p] : r \in {x \in hit : x.xmin = 0}}
       \cup {[Set(r) EXCEPT !.xmin = p, !.xmax = 0] : r \in hit}

\* The line tables are kept by document id (estimate_id, invoice_id), each
\* document's rows in insertion order, which is the order of their ids.
LinesOf(table, id) == IF id \in DOMAIN table THEN table[id] ELSE <<>>
BlockedLines(table, id, p) == BlockedSeq(LinesOf(table, id), LAMBDA l : TRUE, p)
\* a DELETE that removes nothing
DeleteLinesKeeps(table, id, p) == table

DeleteLines(table, id, p) ==
  [k \in DOMAIN table |-> IF k = id THEN DeleteSeq(table[k], LAMBDA l : TRUE, p) ELSE table[k]]
\* an INSERT that leaves out a catalog line whose variation the document
\* already has
InsertLineDedup(table, id, row) ==
  [k \in DOMAIN table |->
     IF k = id /\ ~(\E j \in 1..Len(table[k]) :
                      /\ "product_variation_id" \in DOMAIN row
                      /\ table[k][j].xmax = 0
                      /\ table[k][j].product_variation_id = row.product_variation_id)
     THEN Append(table[k], row) ELSE table[k]]

InsertLine(table, id, row) ==
  [k \in DOMAIN table |-> IF k = id THEN Append(table[k], row) ELSE table[k]]

CountSet(rows, Match(_), p) == Cardinality({r \in rows : Vis(r, p) /\ Match(r)})

CommitSet(rows, p) ==
  {IF r.xmin = p THEN [r EXCEPT !.xmin = 0] ELSE r : r \in {x \in rows : x.xmax # p}}
CommitSeq(rows, p) ==
  LET kept == SelectSeq(rows, LAMBDA r : r.xmax # p)
  IN [i \in 1..Len(kept) |-> IF kept[i].xmin = p THEN [kept[i] EXCEPT !.xmin = 0] ELSE kept[i]]
AbortSet(rows, p) ==
  {IF r.xmax = p THEN [r EXCEPT !.xmax = 0] ELSE r : r \in {x \in rows : x.xmin # p}}
\* a ROLLBACK that does not bring back the rows the transaction deleted
AbortSeqDropsDeleted(rows, p) == SelectSeq(rows, LAMBDA r : r.xmin # p /\ r.xmax # p)

AbortSeq(rows, p) ==
  LET kept == SelectSeq(rows, LAMBDA r : r.xmin # p)
  IN [i \in 1..Len(kept) |-> IF kept[i].xmax = p THEN [kept[i] EXCEPT !.xmax = 0] ELSE kept[i]]

\* COMMIT and ROLLBACK of the transaction of request p
Commit(d, p) ==
  [estimates |-> CommitSet(d.estimates, p),
   estimate_items |-> [k \in DOMAIN d.estimate_items |-> CommitSeq(d.estimate_items[k], p)],
   custom_estimate_items |->
     [k \in DOMAIN d.custom_estimate_items |-> CommitSeq(d.custom_estimate_items[k], p)],
   invoices |-> CommitSet(d.invoices, p),
   invoice_items |-> [k \in DOMAIN d.invoice_items |-> CommitSeq(d.invoice_items[k], p)],
   custom_invoice_items |->
     [k \in DOMAIN d.custom_invoice_items |-> CommitSeq(d.custom_invoice_items[k], p)]]

\* ROLLBACK that keeps what the transaction wrote
RollbackKeeps(d, p) == Commit(d, p)

Rollback(d, p) ==
  [estimates |-> AbortSet(d.estimates, p),
   estimate_items |-> [k \in DOMAIN d.estimate_items |-> AbortSeq(d.estimate_items[k], p)],
   custom_estimate_items |->
     [k \in DOMAIN d.custom_estimate_items |-> AbortSeq(d.custom_estimate_items[k], p)],
   invoices |-> AbortSet(d.invoices, p),
   invoice_items |-> [k \in DOMAIN d.invoice_items |-> AbortSeq(d.invoice_items[k], p)],
   custom_invoice_items |->
     [k \in DOMAIN d.custom_invoice_items |-> AbortSeq(d.custom_invoice_items[k], p)]]

\* what a new reader sees: the committed rows, whatever open transactions
\* have written over them
CommittedSet(rows) == {[r EXCEPT !.xmax = 0] : r \in {x \in rows : x.xmin = 0}}
CommittedSeq(rows) ==
  LET kept == SelectSeq(rows, LAMBDA r : r.xmin = 0)
  IN [i \in 1..Len(kept) |-> [kept[i] EXCEPT !.xmax = 0]]
Committed(d) ==
  [estimates |-> CommittedSet(d.estimates),
   estimate_items |-> [k \in DOMAIN d.estimate_items |-> CommittedSeq(d.estimate_items[k])],
   custom_estimate_items |->
     [k \in DOMAIN d.custom_estimate_items |-> CommittedSeq(d.custom_estimate_items[k])],
   invoices |-> CommittedSet(d.invoices),
   invoice_items |-> [k \in DOMAIN d.invoice_items |-> CommittedSeq(d.invoice_items[k])],
   custom_invoice_items |->
     [k \in DOMAIN d.custom_invoice_items |-> CommittedSeq(d.custom_invoice_items[k])]]

EmptyDb ==
  [estimates |-> {},
   estimate_items |-> [k \in 1..MaxEst |-> <<>>],
   custom_estimate_items |-> [k \in 1..MaxEst |-> <<>>],
   invoices |-> {},
   invoice_items |-> [k \in 1..MaxInv |-> <<>>],
   custom_invoice_items |-> [k \in 1..MaxInv |-> <<>>]]

\* ------------------------------------------------------------ tax rate
\* SELECT COALESCE(tax_rate, 0.06) FROM store_info WHERE user_id = u, then
\* Number(rateRows[0]?.tax_rate ?? 0.06)
Coalesce(a, b) == IF a = Null THEN b ELSE a

TaxRateOf(u) ==
  IF storeInfo[u] = Undef THEN DefaultTaxRate
  ELSE Coalesce(storeInfo[u].tax_rate, Num(DefaultTaxRate)).v

\* ------------------------------------------------------- line resolution
\* pvRows[0] || { price: 0, product_name: '', size: null }
canonicalOf(id) ==
  IF id.t = "num" /\ id.v \in DOMAIN catalog THEN catalog[id.v]
  ELSE [price |-> Num(0), product_name |-> Str(""), size |-> Null]

\* a catalog line of an estimate request; `skip` is the loop's `continue`
ResolveVariation(raw) ==
  IF variant = "boolish" THEN
    LET canonical == canonicalOf(raw.variation_id)
    IN [skip |-> ~Truthy(raw.variation_id),
        variation_id |-> raw.variation_id,
        quantity |-> Number(Or(raw.quantity, Num(1))),
        unit_price |-> IF IsFinite(Number(raw.unit_price)) THEN Number(raw.unit_price)
                       ELSE Number(Or(canonical.price, Num(0))),
        taxable |-> boolish(raw.taxable, TRUE),
        display_name |-> toString(Or(Or(Or(raw.display_name, raw.product_name),
                                        canonical.product_name), Str("")))]
  ELSE
    LET variationId == Number(Nullish(raw.variation_id, raw.variationId))
        n == ParseInt(raw.quantity)
        overridePrice == IF raw.unit_price.t \notin {"undef", "null"}
                         THEN Number(raw.unit_price) ELSE Number(raw.price)
        priceRow == IF variationId.t = "num" /\ variationId.v \in DOMAIN catalog
                    THEN catalog[variationId.v].price ELSE Undef
        name == TrimStr(toString(Or(Or(raw.display_name, raw.product_name), Str(""))))
    IN [skip |-> ~IsFinite(variationId),
        variation_id |-> variationId,
        quantity |-> Num(Max(1, IF Truthy(n) THEN n.v ELSE 1)),
        unit_price |-> IF IsFinite(overridePrice) THEN overridePrice
                       ELSE Number(Or(priceRow, Num(0))),
        taxable |-> toBool(raw.taxable, TRUE),
        display_name |-> IF Truthy(name) THEN name ELSE Null]

\* a custom line of an estimate request
ResolveCustom(item) ==
  IF variant = "boolish" THEN
    [product_name |-> toString(item.product_name),
     size |-> toString(item.size),
     price |-> Number(Or(item.price, Num(0))),
     quantity |-> Number(Or(item.quantity, Num(1))),
     accessory |-> toString(item.accessory),
     taxable |-> boolish(item.taxable, TRUE)]
  ELSE
    LET n == ParseInt(item.quantity)
    IN [product_name |-> toString(Or(item.product_name, item.productName)),
        size |-> toString(item.size),
        price |-> Or(Number(item.price), Num(0)),
        quantity |-> Num(Max(1, IF Truthy(n) THEN n.v ELSE 1)),
        accessory |-> toString(item.accessory),
        taxable |-> toBool(item.taxable, TRUE)]

\* the rows the INSERTs write; an INSERT whose numeric parameter is NaN is
\* refused by the store
VariationInsertable(l) == IsFinite(l.variation_id) /\ IsFinite(l.quantity) /\ IsFinite(l.unit_price)
CustomInsertable(l) == IsFinite(l.quantity) /\ IsFinite(l.price)

EstimateItemRow(estimateId, l, p) ==
  [estimate_id |-> estimateId, product_variation_id |-> l.variation_id.v,
   quantity |-> l.quantity.v, unit_price |-> l.unit_price, taxable |-> Bool(l.taxable),
   display_name |-> l.display_name, xmin |-> p, xmax |-> 0]

CustomEstimateItemRow(estimateId, l, p) ==
  [estimate_id |-> estimateId, product_name |-> l.product_name, size |-> l.size,
   price |-> l.price.v, quantity |-> l.quantity.v, accessory |-> l.accessory,
   taxable |-> Bool(l.taxable), xmin |-> p, xmax |-> 0]

\* tax charged on the whole subtotal
EstimateTotalTaxesAll(taxableSubtotal, nonTaxableSubtotal, taxRate) ==
  (taxableSubtotal + nonTaxableSubtotal) * (Hundred + taxRate) * Hundred

\* taxableSubtotal * (1 + taxRate) + nonTaxableSubtotal, in 1/Scale units
EstimateTotal(taxableSubtotal, nonTaxableSubtotal, taxRate) ==
  taxableSubtotal * (Hundred + taxRate) * Hundred + nonTaxableSubtotal * Scale

\* ------------------------------------------------------------- requests
Procs == {1, 2}

Idle == [op |-> "idle", pc |-> "idle"]

\* a request that has just arrived.  `pre` remembers the committed store
\* the request found and `at` the statement at which it ended; `client` is
\* the handler's pooled client, `releases` counts its client.release() calls
\* and `tx` tells whether a transaction is open on it
NewReq(op, u, id, body) ==
  [op |-> op, user |-> u, id |-> id, body |-> body, pc |-> "start",
   docId |-> 0, i |-> 1, taxableSubtotal |-> 0, nonTaxableSubtotal |-> 0, total |-> 0,
   notes |-> EmptyText, discType |-> "amount", discVal |-> 0,
   estId |-> 0, est |-> Undef, own |-> 0, varLines |-> <<>>, customLines |-> <<>>,
   client |-> "none", releases |-> 0, tx |-> FALSE,
   status |-> 0, out |-> Undef, at |-> "", pre |-> Committed(db)]

Free(p) == req[p].pc \in {"idle", "done"}
At(p, op, pc) == req[p].op = op /\ req[p].pc = pc

\* res.status(status).json(out)
Reply(r, status, out) ==
  [r EXCEPT !.pc = "done", !.status = status, !.out = out, !.at = r.pc]

\* const client = await pool.connect(); try { await client.query('BEGIN')
Connect(r) == [r EXCEPT !.client = "held", !.tx = TRUE]
\* client.release() that is left out
FinallyKeeps(r) == r
\* finally { client.release(); }
Finally(r) == [r EXCEPT !.client = "released", !.releases = @ + 1]
\* await client.query('COMMIT'), or await client.query('ROLLBACK')
EndTx(r) == [r EXCEPT !.tx = FALSE]

\* the position after the header statement(s), and after line i of a list
FirstLinePc(body) ==
  IF Len(body.variationItems) > 0 THEN "variationItems"
  ELSE IF Len(body.customItems) > 0 THEN "customItems" ELSE "total"
AfterVariation(r) ==
  IF r.i < Len(r.body.variationItems) THEN [r EXCEPT !.i = r.i + 1]
  ELSE [r EXCEPT !.i = 1, !.pc = IF Len(r.body.customItems) > 0 THEN "customItems" ELSE "total"]
AfterCustom(r) ==
  IF r.i < Len(r.body.customItems) THEN [r EXCEPT !.i = r.i + 1]
  ELSE [r EXCEPT !.i = 1, !.pc = "total"]

\* path parameter :id.  Num(k) stands for the decimal string of k.
IsDigits(id) == id.t = "num" /\ id.v >= 0
\* an ownership check that does not look at the user
OwnEstimateAnyUser(id, u, p) ==
  {r \in db.estimates : Vis(r, p) /\ id.t = "num" /\ r.id = id.v}

OwnEstimate(id, u, p) ==
  {r \in db.estimates : Vis(r, p) /\ id.t = "num" /\ r.id = id.v /\ r.user_id = u}

\* ----------------------------------------------------- POST /api/estimates
\* requests under way that have yet to draw an id from a sequence; a request
\* is taken up only while the ids it may draw stay within the bound
Pending(ops) ==
  Cardinality({q \in Procs : req[q].op \in ops /\ req[q].pc # "done" /\ req[q].docId = 0})

EstimateCreate(p, u, body) ==
  /\ Free(p)
  /\ seq.estimates + Pending({"estimate_create"}) < MaxEst
  /\ LET r == NewReq("estimate_create", u, Undef, body)
         cleanNotes == Trim(NotesToString(body.notes))
     IN req' = [req EXCEPT ![p] =
          IF TextLen(cleanNotes) > EstimateNotesCap THEN Reply(r, 400, Undef)
          ELSE Connect([r EXCEPT !.notes = cleanNotes, !.pc = "header"])]
  /\ UNCHANGED <<db, seq, storeInfo, catalog, variant>>

\* BEGIN; INSERT INTO estimates ... RETURNING id
EstimateCreateHeader(p) ==
  /\ At(p, "estimate_create", "header")
  /\ LET r == req[p]
         estimateId == seq.estimates + 1
     IN /\ seq' = [seq EXCEPT !.estimates = estimateId]
        /\ db' = [db EXCEPT !.estimates = @ \cup
                   {[id |-> estimateId, user_id |-> r.user,
                     customer_info |-> Or(r.body.customer_info, Str("{}")),
                     total |-> 0, notes |-> r.notes, rate |-> DefaultTaxRate,
                     xmin |-> p, xmax |-> 0]}]
        /\ req' = [req EXCEPT ![p] = [r EXCEPT !.docId = estimateId, !.pc = FirstLinePc(r.body)]]
  /\ UNCHANGED <<storeInfo, catalog, variant>>

\* one pass of `for (const raw of variationItems)`: catalog lookup and
\* INSERT INTO estimate_items (create and update share the loop body)
EstimateVariationLine(p) ==
  /\ req[p].op \in {"estimate_create", "estimate_update"}
  /\ req[p].pc = "variationItems"
  /\ LET r == req[p]
         l == ResolveVariation(r.body.variationItems[r.i])
     IN IF l.skip THEN
          /\ req' = [req EXCEPT ![p] = AfterVariation(r)]
          /\ db' = db
        ELSE IF ~VariationInsertable(l) THEN
          /\ db' = Rollback(db, p)
          /\ req' = [req EXCEPT ![p] = Finally(Reply(EndTx(r), 500, Undef))]
        ELSE
          LET line == l.unit_price.v * l.quantity.v
          IN /\ db' = [db EXCEPT !.estimate_items = InsertLine(@, r.docId, EstimateItemRow(r.docId, l, p))]
             /\ req' = [req EXCEPT ![p] = AfterVariation(
                   IF l.taxable THEN [r EXCEPT !.taxableSubtotal = @ + line]
                   ELSE [r EXCEPT !.nonTaxableSubtotal = @ + line])]
  /\ UNCHANGED <<seq, storeInfo, catalog, variant>>

\* one pass of `for (const item of customItems)`
EstimateCustomLine(p) ==
  /\ req[p].op \in {"estimate_create", "estimate_update"}
  /\ req[p].pc = "customItems"
  /\ LET r == req[p]
         l == ResolveCustom(r.body.customItems[r.i])
     IN IF ~CustomInsertable(l) THEN
          /\ db' = Rollback(db, p)
          /\ req' = [req EXCEPT ![p] = Finally(Reply(EndTx(r), 500, Undef))]
        ELSE
          LET line == l.price.v * l.quantity.v
          IN /\ db' = [db EXCEPT !.custom_estimate_items =
                         InsertLine(@, r.docId, CustomEstimateItemRow(r.docId, l, p))]
             /\ req' = [req EXCEPT ![p] = AfterCustom(
                   IF l.taxable THEN [r EXCEPT !.taxableSubtotal = @ + line]
                   ELSE [r EXCEPT !.nonTaxableSubtotal = @ + line])]
  /\ UNCHANGED <<seq, storeInfo, catalog, variant>>

\* SELECT tax rate; UPDATE estimates SET total = finalTotal
EstimateWriteTotal(p) ==
  /\ req[p].op \in {"estimate_create", "estimate_update"}
  /\ req[p].pc = "total"
  /\ LET r == req[p]
         taxRate == TaxRateOf(r.user)
         finalTotal == EstimateTotal(r.taxableSubtotal, r.nonTaxableSubtotal, taxRate)
     IN /\ ~BlockedSet(db.estimates, LAMBDA e : e.id = r.docId /\ e.user_id = r.user, p)
        /\ db' = [db EXCEPT !.estimates =
                    UpdateSet(@, LAMBDA e : e.id = r.docId /\ e.user_id = r.user,
                              LAMBDA e : [e EXCEPT !.total = finalTotal, !.rate = taxRate], p)]
        /\ req' = [req EXCEPT ![p] = [r EXCEPT !.pc = "commit"]]
  /\ UNCHANGED <<seq, storeInfo, catalog, variant>>

\* COMMIT; res.status(201).json({ estimateId })
EstimateCommit(p) ==
  /\ req[p].op \in {"estimate_create", "estimate_update"}
  /\ req[p].pc = "commit"
  /\ db' = Commit(db, p)
  /\ req' = [req EXCEPT ![p] =
       Finally(Reply(EndTx(req[p]), IF req[p].op = "estimate_create" THEN 201 ELSE 200,
                     Num(req[p].docId)))]
  /\ UNCHANGED <<seq, storeInfo, catalog, variant>>

\* ------------------------------------------------- PUT /api/estimates/:id
EstimateUpdate(p, u, id, body) ==
  /\ Free(p)
  /\ LET r == NewReq("estimate_update", u, id, body)
         cleanNotes == Trim(NotesToString(body.notes))
         estimateId == ParseInt(id)
     IN req' = [req EXCEPT ![p] =
          IF ~IsFinite(estimateId) THEN Reply(r, 400, Undef)
          ELSE IF TextLen(cleanNotes) > EstimateNotesCap THEN Reply(r, 400, Undef)
          ELSE Connect([r EXCEPT !.notes = cleanNotes, !.docId = estimateId.v,
                                 !.estId = estimateId.v, !.pc = "own"])]
  /\ UNCHANGED <<db, seq, storeInfo, catalog, variant>>

\* BEGIN; SELECT 1 FROM estimates WHERE id = $1 AND user_id = $2
EstimateUpdateOwn(p) ==
  /\ At(p, "estimate_update", "own")
  /\ req' = [req EXCEPT ![p] =
       IF OwnEstimate(Num(req[p].estId), req[p].user, p) = {}
       THEN Finally(Reply(EndTx(req[p]), 403, Undef))
       ELSE [req[p] EXCEPT !.pc = "header"]]
  /\ UNCHANGED <<db, seq, storeInfo, catalog, variant>>

\* UPDATE estimates SET customer_info, estimate_date, notes
EstimateUpdateHeader(p) ==
  /\ At(p, "estimate_update", "header")
  /\ LET r == req[p]
     IN /\ ~BlockedSet(db.estimates, LAMBDA e : e.id = r.docId /\ e.user_id = r.user, p)
        /\ db' = [db EXCEPT !.estimates =
                    UpdateSet(@, LAMBDA e : e.id = r.docId /\ e.user_id = r.user,
                              LAMBDA e : [e EXCEPT !.customer_info = Or(r.body.customer_info, Str("{}")),
                                                   !.notes = r.notes], p)]
        /\ req' = [req EXCEPT ![p] = [r EXCEPT !.pc = "deleteItems"]]
  /\ UNCHANGED <<seq, storeInfo, catalog, variant>>

\* the estimate clean-up inside a transaction: PUT deletes the lines before
\* it re-inserts them; convert and invoice create delete lines and header
TxOps == {"estimate_create", "estimate_update", "convert", "invoice_create"}

\* DELETE FROM estimate_items WHERE estimate_id = $1
TxDeleteEstimateItems(p) ==
  /\ req[p].op \in TxOps /\ req[p].pc = "deleteItems"
  /\ LET r == req[p]
     IN /\ ~BlockedLines(db.estimate_items, r.estId, p)
        /\ db' = [db EXCEPT !.estimate_items = DeleteLines(@, r.estId, p)]
        /\ req' = [req EXCEPT ![p] = [r EXCEPT !.pc = "deleteCustom"]]
  /\ UNCHANGED <<seq, storeInfo, catalog, variant>>

\* DELETE FROM custom_estimate_items WHERE estimate_id = $1
TxDeleteCustomEstimateItems(p) ==
  /\ req[p].op \in TxOps /\ req[p].pc = "deleteCustom"
  /\ LET r == req[p]
     IN /\ ~BlockedLines(db.custom_estimate_items, r.estId, p)
        /\ db' = [db EXCEPT !.custom_estimate_items =
                    DeleteLines(@, r.estId, p)]
        /\ req' = [req EXCEPT ![p] =
             [r EXCEPT !.pc = IF r.op = "estimate_update" THEN FirstLinePc(r.body)
                              ELSE "deleteHeader"]]
  /\ UNCHANGED <<seq, storeInfo, catalog, variant>>

\* DELETE FROM estimates WHERE id = $1 AND user_id = $2
TxDeleteEstimate(p) ==
  /\ req[p].op \in TxOps /\ req[p].pc = "deleteHeader"
  /\ LET r == req[p]
     IN /\ ~BlockedSet(db.estimates, LAMBDA e : e.id = r.estId /\ e.user_id = r.user, p)
        /\ db' = [db EXCEPT !.estimates =
                    DeleteSet(@, LAMBDA e : e.id = r.estId /\ e.user_id = r.user, p)]
        /\ req' = [req EXCEPT ![p] = [r EXCEPT !.pc = "commit"]]
  /\ UNCHANGED <<seq, storeInfo, catalog, variant>>

\* an exception inside try { BEGIN ... COMMIT }: ROLLBACK and a 500
TxFail(p) ==
  /\ req[p].op \in TxOps
  /\ req[p].pc \notin {"idle", "start", "done"}
  /\ db' = Rollback(db, p)
  /\ req' = [req EXCEPT ![p] = Finally(Reply(EndTx(req[p]), 500, Undef))]
  /\ UNCHANGED <<seq, storeInfo, catalog, variant>>

\* ------------------------------------------------------ invoice totals
\* the discount of a request: type and clamped value
DiscountType(lowered) == IF lowered = Str("percent") THEN "percent" ELSE "amount"
DiscountValue(discType, v) ==
  IF discType = "percent" THEN clamp(v, 0, MaxPercent) ELSE clamp(v, 0, MaxAmountDiscount)

\* an amount discount taken off without a floor at 0
InvoiceTotalNoFloor(discType, discVal, taxableSubtotal, nonTaxableSubtotal, taxRate) ==
  LET baseGrand == taxableSubtotal * (Hundred + taxRate) * Hundred + nonTaxableSubtotal * Scale
      pct == clamp(discVal, 0, MaxPercent)
  IN IF discType = "amount" THEN baseGrand - discVal * Scale
     ELSE taxableSubtotal * (Hundred - pct) * (Hundred + taxRate)
          + nonTaxableSubtotal * (Hundred - pct) * Hundred

\* a percent discount with the tax charged on the undiscounted subtotal
InvoiceTotalTaxesUndiscounted(discType, discVal, taxableSubtotal, nonTaxableSubtotal, taxRate) ==
  LET baseGrand == taxableSubtotal * (Hundred + taxRate) * Hundred + nonTaxableSubtotal * Scale
      pct == clamp(discVal, 0, MaxPercent)
  IN IF discType = "amount" THEN Max(0, baseGrand - clamp(discVal * Scale, 0, baseGrand))
     ELSE taxableSubtotal * (Hundred - pct) * Hundred
          + nonTaxableSubtotal * (Hundred - pct) * Hundred
          + taxableSubtotal * taxRate * Hundred

\* an amount discount that the later version takes off without Math.max
AmountTotalNoFloor(version, discVal, baseGrand) ==
  IF version = "boolish"
  THEN Max(0, baseGrand - clamp(discVal * Scale, 0, baseGrand))
  ELSE baseGrand - clamp(discVal, 0, MaxAmountDiscount) * Scale

\* the total after an amount discount, as each version of the files has it:
\* Math.max(0, baseGrand - clamp(discVal, 0, baseGrand)), and
\* Math.max(0, baseGrand - clamp(discVal, 0, 1e12))
AmountTotal(version, discVal, baseGrand) ==
  IF version = "boolish"
  THEN Max(0, baseGrand - clamp(discVal * Scale, 0, baseGrand))
  ELSE Max(0, baseGrand - clamp(discVal, 0, MaxAmountDiscount) * Scale)

\* the total of an invoice from its subtotals, in 1/Scale units
InvoiceTotal(discType, discVal, taxableSubtotal, nonTaxableSubtotal, taxRate) ==
  IF discType = "amount" THEN
    LET baseGrand == taxableSubtotal * (Hundred + taxRate) * Hundred + nonTaxableSubtotal * Scale
    IN AmountTotal(variant, discVal, baseGrand)
  ELSE
    LET pct == clamp(discVal, 0, MaxPercent)
        taxableAfter == taxableSubtotal * (Hundred - pct)
        nonTaxAfter == nonTaxableSubtotal * (Hundred - pct)
        taxAfter == taxableAfter * taxRate
    IN taxableAfter * Hundred + nonTaxAfter * Hundred + taxAfter

\* -------------------------------- POST /api/estimates/:id/convert-to-invoice
\* a read of the estimate's catalog lines that takes the price of the
\* catalog, not the price stored on the line
JoinedEstimateItemsLivePrice(estimateId, p) ==
  LET rows == SelectSeq(LinesOf(db.estimate_items, estimateId),
                LAMBDA ei : Vis(ei, p) /\ ei.product_variation_id \in DOMAIN catalog)
  IN [k \in 1..Len(rows) |->
        LET ei == rows[k]
            pv == catalog[ei.product_variation_id]
        IN [variation_id |-> ei.product_variation_id,
            price |-> pv.price,
            product_name |-> Coalesce(ei.display_name, pv.product_name),
            taxable |-> Coalesce(ei.taxable, Bool(TRUE)),
            size |-> pv.size,
            quantity |-> ei.quantity]]

\* estimate_items JOIN product_variations JOIN products WHERE estimate_id:
\* an inner join, so a line whose variation is not in the catalog is not
\* returned
JoinedEstimateItems(estimateId, p) ==
  LET rows == SelectSeq(LinesOf(db.estimate_items, estimateId),
                LAMBDA ei : Vis(ei, p) /\ ei.product_variation_id \in DOMAIN catalog)
  IN [k \in 1..Len(rows) |->
        LET ei == rows[k]
            pv == catalog[ei.product_variation_id]
        IN [variation_id |-> ei.product_variation_id,
            price |-> Coalesce(ei.unit_price, pv.price),
            product_name |-> Coalesce(ei.display_name, pv.product_name),
            taxable |-> Coalesce(ei.taxable, Bool(TRUE)),
            size |-> pv.size,
            quantity |-> ei.quantity]]

\* custom_estimate_items WHERE estimate_id, with
\* CASE WHEN taxable IN (TRUE, 'true', 1) THEN TRUE ELSE FALSE END
CustomEstimateItems(estimateId, p) ==
  LET rows == SelectSeq(LinesOf(db.custom_estimate_items, estimateId), LAMBDA c : Vis(c, p))
  IN [k \in 1..Len(rows) |->
        [product_name |-> rows[k].product_name, size |-> rows[k].size,
         price |-> rows[k].price, quantity |-> rows[k].quantity,
         accessory |-> rows[k].accessory,
         taxable |-> Bool(rows[k].taxable = Bool(TRUE))]]

Convert(p, u, id, body) ==
  /\ Free(p)
  /\ seq.invoices + Pending({"convert", "invoice_create"}) < MaxInv
  /\ LET r == NewReq("convert", u, id, body)
         discType == DiscountType(LowerCase(body.discount_type))
         discVal == DiscountValue(discType, NumberOr0(Or(body.discount_value, Num(0))))
     IN req' = [req EXCEPT ![p] =
          IF ~IsDigits(id) THEN Reply(r, 400, Undef)
          ELSE Connect([r EXCEPT !.discType = discType, !.discVal = discVal, !.estId = id.v,
                                 !.pc = "own"])]
  /\ UNCHANGED <<db, seq, storeInfo, catalog, variant>>

\* BEGIN; SELECT id, customer_info, notes FROM estimates WHERE id, user_id
ConvertOwn(p) ==
  /\ At(p, "convert", "own")
  /\ LET r == req[p]
         estRows == OwnEstimate(r.id, r.user, p)
     IN req' = [req EXCEPT ![p] =
          IF estRows = {} THEN Finally(Reply(EndTx(r), 403, Undef))
          ELSE LET est == CHOOSE e \in estRows : TRUE
                   carriedNotes == NotesToString(Or(est.notes, EmptyText))
                   invNotes == Slice(NotesToString(Nullish(r.body.notes, carriedNotes)),
                                     InvoiceNotesCap)
               IN [r EXCEPT !.est = est, !.notes = invNotes, !.pc = "header"]]
  /\ UNCHANGED <<db, seq, storeInfo, catalog, variant>>

InvoiceRow(invoiceId, r, customer_info, p) ==
  [id |-> invoiceId, user_id |-> r.user, customer_info |-> customer_info, total |-> 0,
   discount_type |-> r.discType, discount_value |-> r.discVal, notes |-> r.notes,
   rate |-> DefaultTaxRate, xmin |-> p, xmax |-> 0]

\* INSERT INTO invoices ... RETURNING id.  The boolish version inserts with
\* SELECT ... FROM estimates WHERE id, user_id and reads invHdr[0].id, which
\* throws when the estimate is no longer there.
ConvertHeader(p) ==
  /\ At(p, "convert", "header")
  /\ LET r == req[p]
         estRows == OwnEstimate(r.id, r.user, p)
         invoiceId == seq.invoices + 1
     IN IF variant = "boolish" /\ estRows = {} THEN
          /\ db' = Rollback(db, p)
          /\ req' = [req EXCEPT ![p] = Finally(Reply(EndTx(r), 500, Undef))]
          /\ seq' = seq
        ELSE
          LET customer_info ==
                IF variant = "boolish" THEN (CHOOSE e \in estRows : TRUE).customer_info
                ELSE Or(r.est.customer_info, Str("{}"))
          IN /\ seq' = [seq EXCEPT !.invoices = invoiceId]
             /\ db' = [db EXCEPT !.invoices = @ \cup {InvoiceRow(invoiceId, r, customer_info, p)}]
             /\ req' = [req EXCEPT ![p] = [r EXCEPT !.docId = invoiceId, !.pc = "readVariation"]]
  /\ UNCHANGED <<storeInfo, catalog, variant>>

\* where convert goes after a statement: the boolish version reads and
\* copies the catalog lines, then reads and copies the custom lines; the
\* toBool version reads both and then copies both
ConvertAfterReadVariation(r) ==
  [r EXCEPT !.i = 1,
            !.pc = IF variant = "boolish"
                   THEN (IF Len(r.varLines) > 0 THEN "insertVariation" ELSE "readCustom")
                   ELSE "readCustom"]
ConvertAfterReadCustom(r) ==
  [r EXCEPT !.i = 1,
            !.pc = IF variant = "toBool" /\ Len(r.varLines) > 0 THEN "insertVariation"
                   ELSE IF Len(r.customLines) > 0 THEN "insertCustom" ELSE "total"]
ConvertAfterVariation(r) ==
  IF r.i < Len(r.varLines) THEN [r EXCEPT !.i = r.i + 1]
  ELSE [r EXCEPT !.i = 1,
                 !.pc = IF variant = "boolish" THEN "readCustom"
                        ELSE IF Len(r.customLines) > 0 THEN "insertCustom" ELSE "total"]
ConvertAfterCustom(r) ==
  IF r.i < Len(r.customLines) THEN [r EXCEPT !.i = r.i + 1]
  ELSE [r EXCEPT !.i = 1, !.pc = "total"]

ConvertReadVariation(p) ==
  /\ At(p, "convert", "readVariation")
  /\ req' = [req EXCEPT ![p] =
       ConvertAfterReadVariation([req[p] EXCEPT !.varLines = JoinedEstimateItems(req[p].estId, p)])]
  /\ UNCHANGED <<db, seq, storeInfo, catalog, variant>>

ConvertReadCustom(p) ==
  /\ At(p, "convert", "readCustom")
  /\ req' = [req EXCEPT ![p] =
       ConvertAfterReadCustom([req[p] EXCEPT !.customLines = CustomEstimateItems(req[p].estId, p)])]
  /\ UNCHANGED <<db, seq, storeInfo, catalog, variant>>

\* quantity and price of a line read back from the estimate
ConvertQuantity(q) ==
  IF variant = "boolish" THEN Number(Or(Num(q), Num(1))).v
  ELSE Max(1, IF Truthy(ParseInt(Num(q))) THEN q ELSE 1)
ConvertPrice(price) ==
  IF variant = "boolish" THEN Number(Or(price, Num(0))).v ELSE NumberOr0(price)

\* total += amt; if (taxable) taxableSubtotal += amt   (boolish)
\* taxable ? taxableSubtotal += line : nonTaxableSubtotal += line   (toBool)
Accumulate(r, taxable, amt) ==
  IF variant = "boolish" THEN
    [r EXCEPT !.total = @ + amt, !.taxableSubtotal = IF taxable THEN @ + amt ELSE @]
  ELSE IF taxable THEN [r EXCEPT !.taxableSubtotal = @ + amt]
  ELSE [r EXCEPT !.nonTaxableSubtotal = @ + amt]

\* one pass of the loop over the catalog lines: INSERT INTO invoice_items
ConvertVariationLine(p) ==
  /\ At(p, "convert", "insertVariation")
  /\ LET r == req[p]
         line == r.varLines[r.i]
         qty == ConvertQuantity(line.quantity)
         price == ConvertPrice(line.price)
         row == [invoice_id |-> r.docId, product_variation_id |-> Num(line.variation_id),
                 quantity |-> qty, price |-> price,
                 taxable |-> Bool(Truthy(line.taxable)),
                 display_name |-> IF variant = "boolish" THEN toString(line.product_name)
                                  ELSE line.product_name,
                 xmin |-> p, xmax |-> 0]
     IN /\ db' = [db EXCEPT !.invoice_items = InsertLine(@, r.docId, row)]
        /\ req' = [req EXCEPT ![p] =
             ConvertAfterVariation(Accumulate(r, Truthy(line.taxable), price * qty))]
  /\ UNCHANGED <<seq, storeInfo, catalog, variant>>

\* one pass of the loop over the custom lines: INSERT INTO custom_invoice_items
ConvertCustomLine(p) ==
  /\ At(p, "convert", "insertCustom")
  /\ LET r == req[p]
         it == r.customLines[r.i]
         qty == ConvertQuantity(it.quantity)
         price == ConvertPrice(Num(it.price))
         str(v) == IF variant = "boolish" THEN toString(v) ELSE v
         row == [invoice_id |-> r.docId, product_name |-> str(it.product_name),
                 size |-> str(it.size), price |-> price, quantity |-> qty,
                 accessory |-> str(it.accessory), taxable |-> Bool(Truthy(it.taxable)),
                 xmin |-> p, xmax |-> 0]
     IN /\ db' = [db EXCEPT !.custom_invoice_items = InsertLine(@, r.docId, row)]
        /\ req' = [req EXCEPT ![p] =
             ConvertAfterCustom(Accumulate(r, Truthy(it.taxable), price * qty))]
  /\ UNCHANGED <<seq, storeInfo, catalog, variant>>

\* SELECT tax rate; compute finalTotal; UPDATE invoices SET total
\* (convert and invoice create share the statement)
InvoiceWriteTotal(p) ==
  /\ req[p].op \in {"convert", "invoice_create"}
  /\ req[p].pc = "total"
  /\ LET r == req[p]
         taxRate == TaxRateOf(r.user)
         nonTaxableSubtotal == IF variant = "boolish" THEN r.total - r.taxableSubtotal
                               ELSE r.nonTaxableSubtotal
         finalTotal == InvoiceTotal(r.discType, r.discVal, r.taxableSubtotal,
                                    nonTaxableSubtotal, taxRate)
     IN /\ ~BlockedSet(db.invoices, LAMBDA v : v.id = r.docId /\ v.user_id = r.user, p)
        /\ db' = [db EXCEPT !.invoices =
                    UpdateSet(@, LAMBDA v : v.id = r.docId /\ v.user_id = r.user,
                              LAMBDA v : [v EXCEPT !.total = finalTotal, !.rate = taxRate], p)]
        /\ req' = [req EXCEPT ![p] =
             [r EXCEPT !.pc = IF r.op = "convert" THEN "deleteItems"
                              ELSE IF IsFinite(Number(r.body.source_estimate_id))
                              THEN "sourceOwn" ELSE "commit"]]
  /\ UNCHANGED <<seq, storeInfo, catalog, variant>>

\* COMMIT; res.status(201).json({ invoiceId })
InvoiceCommit(p) ==
  /\ req[p].op \in {"convert", "invoice_create"}
  /\ req[p].pc = "commit"
  /\ db' = Commit(db, p)
  /\ req' = [req EXCEPT ![p] = Finally(Reply(EndTx(req[p]), 201, Num(req[p].docId)))]
  /\ UNCHANGED <<seq, storeInfo, catalog, variant>>

\* ------------------------------------------------------ POST /api/invoices
\* a catalog line of an invoice request: the price comes from the request,
\* there is no catalog lookup
ResolveInvoiceVariation(item) ==
  IF variant = "boolish" THEN
    [skip |-> FALSE,
     variation_id |-> IF item.variation_id = Undef THEN Null ELSE item.variation_id,
     quantity |-> Number(Or(item.quantity, Num(1))),
     price |-> Number(Or(item.price, Num(0))),
     taxable |-> boolish(item.taxable, TRUE),
     display_name |-> toString(Or(item.display_name, item.product_name))]
  ELSE
    LET variationId == Number(Nullish(item.variation_id, item.variationId))
        n == ParseInt(item.quantity)
        name == TrimStr(toString(Or(Or(item.display_name, item.product_name), Str(""))))
    IN [skip |-> ~IsFinite(variationId),
        variation_id |-> variationId,
        quantity |-> Num(Max(1, IF Truthy(n) THEN n.v ELSE 1)),
        price |-> Or(Number(item.price), Num(0)),
        taxable |-> toBool(item.taxable, TRUE),
        display_name |-> IF Truthy(name) THEN name ELSE Null]

InvoiceCreate(p, u, body) ==
  /\ Free(p)
  /\ seq.invoices + Pending({"convert", "invoice_create"}) < MaxInv
  /\ LET r == NewReq("invoice_create", u, Undef, body)
         discType == DiscountType(IF variant = "boolish" THEN body.discount_type
                                  ELSE LowerCase(body.discount_type))
         discVal == DiscountValue(discType, NumberOr0(body.discount_value))
         cleanNotes == Slice(NotesToString(body.notes), InvoiceNotesCap)
         srcEstId == Number(body.source_estimate_id)
     IN req' = [req EXCEPT ![p] =
          Connect([r EXCEPT !.discType = discType, !.discVal = discVal, !.notes = cleanNotes,
                            !.estId = IF IsFinite(srcEstId) THEN srcEstId.v ELSE 0,
                            !.pc = "header"])]
  /\ UNCHANGED <<db, seq, storeInfo, catalog, variant>>

\* BEGIN; INSERT INTO invoices ... RETURNING id
InvoiceCreateHeader(p) ==
  /\ At(p, "invoice_create", "header")
  /\ LET r == req[p]
         invoiceId == seq.invoices + 1
     IN /\ seq' = [seq EXCEPT !.invoices = invoiceId]
        /\ db' = [db EXCEPT !.invoices = @ \cup
                    {InvoiceRow(invoiceId, r, Or(r.body.customer_info, Str("{}")), p)}]
        /\ req' = [req EXCEPT ![p] = [r EXCEPT !.docId = invoiceId, !.pc = FirstLinePc(r.body)]]
  /\ UNCHANGED <<storeInfo, catalog, variant>>

InvoiceVariationLine(p) ==
  /\ At(p, "invoice_create", "variationItems")
  /\ LET r == req[p]
         l == ResolveInvoiceVariation(r.body.variationItems[r.i])
     IN IF l.skip THEN
          /\ req' = [req EXCEPT ![p] = AfterVariation(r)]
          /\ db' = db
        ELSE IF ~(IsFinite(l.quantity) /\ IsFinite(l.price) /\ l.variation_id.t \in {"num", "null"}) THEN
          /\ db' = Rollback(db, p)
          /\ req' = [req EXCEPT ![p] = Finally(Reply(EndTx(r), 500, Undef))]
        ELSE
          /\ db' = [db EXCEPT !.invoice_items = InsertLine(@, r.docId,
                      [invoice_id |-> r.docId, product_variation_id |-> l.variation_id,
                       quantity |-> l.quantity.v, price |-> l.price.v,
                       taxable |-> Bool(l.taxable), display_name |-> l.display_name,
                       xmin |-> p, xmax |-> 0])]
          /\ req' = [req EXCEPT ![p] =
               AfterVariation(Accumulate(r, l.taxable, l.price.v * l.quantity.v))]
  /\ UNCHANGED <<seq, storeInfo, catalog, variant>>

InvoiceCustomLine(p) ==
  /\ At(p, "invoice_create", "customItems")
  /\ LET r == req[p]
         l == ResolveCustom(r.body.customItems[r.i])
     IN IF ~CustomInsertable(l) THEN
          /\ db' = Rollback(db, p)
          /\ req' = [req EXCEPT ![p] = Finally(Reply(EndTx(r), 500, Undef))]
        ELSE
          /\ db' = [db EXCEPT !.custom_invoice_items = InsertLine(@, r.docId,
                      [invoice_id |-> r.docId, product_name |-> l.product_name,
                       size |-> l.size, price |-> l.price.v, quantity |-> l.quantity.v,
                       accessory |-> l.accessory, taxable |-> Bool(l.taxable),
                       xmin |-> p, xmax |-> 0])]
          /\ req' = [req EXCEPT ![p] =
               AfterCustom(Accumulate(r, l.taxable, l.price.v * l.quantity.v))]
  /\ UNCHANGED <<seq, storeInfo, catalog, variant>>

\* if (Number.isFinite(srcEstId)) SELECT 1 FROM estimates WHERE id, user_id;
\* the deletes follow only if (own > 0)
InvoiceSourceOwn(p) ==
  /\ At(p, "invoice_create", "sourceOwn")
  /\ LET own == Cardinality(OwnEstimate(Num(req[p].estId), req[p].user, p))
     IN req' = [req EXCEPT ![p] =
          [req[p] EXCEPT !.own = own,
                         !.pc = IF own > 0 THEN "deleteItems" ELSE "commit"]]
  /\ UNCHANGED <<db, seq, storeInfo, catalog, variant>>

\* ----------------------------------------- handlers without a transaction
\* These run each statement with pool.query: every statement commits on its
\* own.  A statement whose id parameter is not an integer is refused.
AutoOps == {"estimate_notes", "estimate_items", "estimate_delete",
            "invoice_items", "invoice_delete"}

OwnInvoice(id, u, p) ==
  {r \in db.invoices : Vis(r, p) /\ id.t = "num" /\ r.id = id.v /\ r.user_id = u}

\* an exception in a statement: the catch block answers 500; whatever the
\* earlier statements wrote stays
AutoFail(p) ==
  /\ req[p].op \in AutoOps
  /\ req[p].pc \notin {"idle", "start", "done"}
  /\ req' = [req EXCEPT ![p] = Reply(req[p], 500, Undef)]
  /\ UNCHANGED <<db, seq, storeInfo, catalog, variant>>

\* SELECT 1 FROM estimates|invoices WHERE id = $1 AND user_id = $2, and the
\* 403 when there is no such row
AutoOwn(p) ==
  /\ req[p].op \in AutoOps /\ req[p].pc = "own"
  /\ LET r == req[p]
         rows == IF r.op \in {"invoice_items", "invoice_delete"}
                 THEN OwnInvoice(r.id, r.user, p) ELSE OwnEstimate(r.id, r.user, p)
     IN req' = [req EXCEPT ![p] =
          IF r.id.t # "num" THEN Reply(r, 500, Undef)
          ELSE IF rows = {} THEN Reply(r, 403, Undef)
          ELSE [r EXCEPT !.docId = r.id.v, !.estId = r.id.v,
                         !.pc = CASE r.op = "estimate_notes" -> "update"
                                  [] r.op \in {"estimate_items", "invoice_items"} -> "readVariation"
                                  [] OTHER -> "deleteItems"]]
  /\ UNCHANGED <<db, seq, storeInfo, catalog, variant>>

\* GET /api/invoices/:id: one SELECT ... FROM invoices WHERE id = $1 AND
\* user_id = $2 with ROUND(total, 2), 404 when it returns no row
InvoiceGet(p, u, id) ==
  /\ Free(p)
  /\ LET r == NewReq("invoice_get", u, id, Undef)
         rows == OwnInvoice(id, u, p)
         Round2(t) == IF t >= 0 THEN ((t + Hundred \div 2) \div Hundred) * Hundred
                      ELSE 0 - (((0 - t) + Hundred \div 2) \div Hundred) * Hundred
         header(v) == [id |-> v.id, customer_info |-> v.customer_info, total |-> Round2(v.total),
                       discount_type |-> v.discount_type, discount_value |-> v.discount_value,
                       notes |-> v.notes]
     IN req' = [req EXCEPT ![p] =
          IF id.t # "num" THEN Reply(r, 500, Undef)
          ELSE IF rows = {} THEN Reply(r, 404, Undef)
          ELSE Reply(r, 200, header(CHOOSE v \in rows : TRUE))]
  /\ UNCHANGED <<db, seq, storeInfo, catalog, variant>>

\* PATCH /api/estimates/:id/notes; the toBool version of the file has no
\* such route
EstimateNotes(p, u, id, body) ==
  /\ Free(p)
  /\ variant = "boolish"
  /\ LET r == NewReq("estimate_notes", u, id, body)
         cleanNotes == Trim(NotesToString(body.notes))
     IN req' = [req EXCEPT ![p] =
          IF TextLen(cleanNotes) > EstimateNotesCap THEN Reply(r, 400, Undef)
          ELSE [r EXCEPT !.notes = cleanNotes, !.pc = "own"]]
  /\ UNCHANGED <<db, seq, storeInfo, catalog, variant>>

\* UPDATE estimates SET notes = $1 WHERE id = $2 AND user_id = $3
EstimateNotesUpdate(p) ==
  /\ At(p, "estimate_notes", "update")
  /\ LET r == req[p]
     IN /\ ~BlockedSet(db.estimates, LAMBDA e : e.id = r.docId /\ e.user_id = r.user, p)
        /\ db' = Commit([db EXCEPT !.estimates =
                    UpdateSet(@, LAMBDA e : e.id = r.docId /\ e.user_id = r.user,
                              LAMBDA e : [e EXCEPT !.notes = r.notes], p)], p)
        /\ req' = [req EXCEPT ![p] = Reply(r, 200, Undef)]
  /\ UNCHANGED <<seq, storeInfo, catalog, variant>>

\* GET /api/estimates/:id/items and GET /api/invoices/:id/items
ItemsGet(p, u, id, kind) ==
  /\ Free(p)
  /\ req' = [req EXCEPT ![p] =
       [NewReq(IF kind = "estimate" THEN "estimate_items" ELSE "invoice_items", u, id, Undef)
          EXCEPT !.pc = "own"]]
  /\ UNCHANGED <<db, seq, storeInfo, catalog, variant>>

\* invoice_items joined with the catalog: an inner join in the boolish
\* version, a left join with COALESCE(.., 'Item') in the toBool version
JoinedInvoiceItems(invoiceId, p) ==
  LET InCatalog(ii) == ii.product_variation_id.t = "num"
                       /\ ii.product_variation_id.v \in DOMAIN catalog
      rows == SelectSeq(LinesOf(db.invoice_items, invoiceId),
                LAMBDA ii : Vis(ii, p) /\ (variant = "toBool" \/ InCatalog(ii)))
  IN [k \in 1..Len(rows) |->
        LET ii == rows[k]
            pv == IF InCatalog(ii) THEN catalog[ii.product_variation_id.v]
                  ELSE [price |-> Null, product_name |-> Null, size |-> Null]
        IN [variation_id |-> ii.product_variation_id,
            price |-> Num(ii.price),
            product_name |-> IF variant = "boolish" THEN Coalesce(ii.display_name, pv.product_name)
                             ELSE Coalesce(Coalesce(ii.display_name, pv.product_name), Str("Item")),
            taxable |-> ii.taxable,
            size |-> IF variant = "boolish" THEN pv.size ELSE Coalesce(pv.size, Str("")),
            quantity |-> ii.quantity]]

CustomInvoiceItems(invoiceId, p) ==
  LET rows == SelectSeq(LinesOf(db.custom_invoice_items, invoiceId), LAMBDA c : Vis(c, p))
  IN [k \in 1..Len(rows) |->
        [product_name |-> rows[k].product_name, size |-> rows[k].size,
         price |-> rows[k].price, quantity |-> rows[k].quantity,
         accessory |-> rows[k].accessory, taxable |-> rows[k].taxable]]

\* the first SELECT of the items
ItemsReadVariation(p) ==
  /\ req[p].op \in {"estimate_items", "invoice_items"} /\ req[p].pc = "readVariation"
  /\ req' = [req EXCEPT ![p] =
       [req[p] EXCEPT !.pc = "readCustom",
                      !.varLines = IF req[p].op = "estimate_items"
                                   THEN JoinedEstimateItems(req[p].docId, p)
                                   ELSE JoinedInvoiceItems(req[p].docId, p)]]
  /\ UNCHANGED <<db, seq, storeInfo, catalog, variant>>

\* the second SELECT and res.json(combinedItems)
ItemsReadCustom(p) ==
  /\ req[p].op \in {"estimate_items", "invoice_items"} /\ req[p].pc = "readCustom"
  /\ LET r == req[p]
         customItems == IF r.op = "estimate_items" THEN CustomEstimateItems(r.docId, p)
                        ELSE CustomInvoiceItems(r.docId, p)
         variationOut == [k \in 1..Len(r.varLines) |->
            [type |-> "variation", product_name |-> r.varLines[k].product_name,
             size |-> r.varLines[k].size, price |-> Number(r.varLines[k].price),
             quantity |-> r.varLines[k].quantity, accessory |-> Null,
             taxable |-> Truthy(r.varLines[k].taxable),
             variation_id |-> r.varLines[k].variation_id]]
         customOut == [k \in 1..Len(customItems) |->
            [type |-> "custom", product_name |-> customItems[k].product_name,
             size |-> customItems[k].size, price |-> Num(customItems[k].price),
             quantity |-> customItems[k].quantity, accessory |-> customItems[k].accessory,
             taxable |-> Truthy(customItems[k].taxable), variation_id |-> Null]]
     IN req' = [req EXCEPT ![p] = Reply([r EXCEPT !.customLines = customItems], 200,
                                        variationOut \o customOut)]
  /\ UNCHANGED <<db, seq, storeInfo, catalog, variant>>

\* DELETE /api/estimates/:id and DELETE /api/invoices/:id
DocumentDelete(p, u, id, kind) ==
  /\ Free(p)
  /\ LET r == NewReq(IF kind = "estimate" THEN "estimate_delete" ELSE "invoice_delete", u, id, Undef)
     IN req' = [req EXCEPT ![p] =
          IF kind = "estimate" /\ ~IsDigits(id) THEN Reply(r, 400, Undef)
          ELSE [r EXCEPT !.pc = "own"]]
  /\ UNCHANGED <<db, seq, storeInfo, catalog, variant>>

\* DELETE FROM estimate_items | invoice_items WHERE estimate_id | invoice_id = $1
DeleteItems(p) ==
  /\ req[p].op \in {"estimate_delete", "invoice_delete"} /\ req[p].pc = "deleteItems"
  /\ LET r == req[p]
     IN /\ IF r.op = "estimate_delete"
           THEN /\ ~BlockedLines(db.estimate_items, r.docId, p)
                /\ db' = Commit([db EXCEPT !.estimate_items =
                            DeleteLines(@, r.docId, p)], p)
           ELSE /\ ~BlockedLines(db.invoice_items, r.docId, p)
                /\ db' = Commit([db EXCEPT !.invoice_items =
                            DeleteLines(@, r.docId, p)], p)
        /\ req' = [req EXCEPT ![p] = [r EXCEPT !.pc = "deleteCustom"]]
  /\ UNCHANGED <<seq, storeInfo, catalog, variant>>

\* DELETE FROM custom_estimate_items | custom_invoice_items
DeleteCustomItems(p) ==
  /\ req[p].op \in {"estimate_delete", "invoice_delete"} /\ req[p].pc = "deleteCustom"
  /\ LET r == req[p]
     IN /\ IF r.op = "estimate_delete"
           THEN /\ ~BlockedLines(db.custom_estimate_items, r.docId, p)
                /\ db' = Commit([db EXCEPT !.custom_estimate_items =
                            DeleteLines(@, r.docId, p)], p)
           ELSE /\ ~BlockedLines(db.custom_invoice_items, r.docId, p)
                /\ db' = Commit([db EXCEPT !.custom_invoice_items =
                            DeleteLines(@, r.docId, p)], p)
        /\ req' = [req EXCEPT ![p] = [r EXCEPT !.pc = "deleteHeader"]]
  /\ UNCHANGED <<seq, storeInfo, catalog, variant>>

\* DELETE FROM estimates | invoices WHERE id = $1 AND user_id = $2; the
\* boolish estimates route answers 404 when no row was deleted
DeleteHeader(p) ==
  /\ req[p].op \in {"estimate_delete", "invoice_delete"} /\ req[p].pc = "deleteHeader"
  /\ LET r == req[p]
         Mine(h) == h.id = r.docId /\ h.user_id = r.user
     IN IF r.op = "estimate_delete"
        THEN /\ ~BlockedSet(db.estimates, Mine, p)
             /\ db' = Commit([db EXCEPT !.estimates = DeleteSet(@, Mine, p)], p)
             /\ req' = [req EXCEPT ![p] =
                  Reply(r, IF variant = "boolish" /\ CountSet(db.estimates, Mine, p) = 0
                           THEN 404 ELSE 200, Undef)]
        ELSE /\ ~BlockedSet(db.invoices, Mine, p)
             /\ db' = Commit([db EXCEPT !.invoices = DeleteSet(@, Mine, p)], p)
             /\ req' = [req EXCEPT ![p] = Reply(r, 200, Undef)]
  /\ UNCHANGED <<seq, storeInfo, catalog, variant>>

\* ------------------------------------------------- POST /api/store-info
\* a sanitizer that lets any number through
sanitizeTaxRateAnyNumber(tax_rate) ==
  IF IsFinite(Number(tax_rate)) THEN Number(tax_rate) ELSE Num(DefaultTaxRate)

sanitizeTaxRate(tax_rate) ==
  LET rate == Number(tax_rate)
  IN IF ~IsFinite(rate) THEN Num(DefaultTaxRate)
     ELSE IF rate.v < 0 \/ rate.v > Hundred THEN Num(DefaultTaxRate) ELSE rate

\* INSERT INTO store_info ... ON CONFLICT (user_id) DO UPDATE SET tax_rate:
\* one statement, committed on its own
StoreInfoSave(p, u, tax_rate) ==
  /\ Free(p)
  /\ storeInfo' = [storeInfo EXCEPT ![u] = [tax_rate |-> sanitizeTaxRate(tax_rate)]]
  /\ req' = [req EXCEPT ![p] =
       Reply(NewReq("store_info", u, Undef, [tax_rate |-> tax_rate]), 200, Undef)]
  /\ UNCHANGED <<db, seq, catalog, variant>>

\* POST /api/store-info/logo: INSERT INTO store_info (user_id, logo_url) ...
\* ON CONFLICT (user_id) DO UPDATE SET logo_url.  A row made here is given
\* no tax_rate: it has the column's default, which is NULL or, if the table
\* declares one, the default rate
StoreLogoSave(p, u) ==
  /\ Free(p)
  /\ \E default \in {Null, Num(DefaultTaxRate)} :
       storeInfo' = [storeInfo EXCEPT ![u] = IF @ = Undef THEN [tax_rate |-> default] ELSE @]
  /\ req' = [req EXCEPT ![p] = Reply(NewReq("store_logo", u, Undef, Undef), 200, Undef)]
  /\ UNCHANGED <<db, seq, catalog, variant>>

\* DELETE /api/store-info/logo: UPDATE store_info SET logo_url = ''
StoreLogoDelete(p, u) ==
  /\ Free(p)
  /\ req' = [req EXCEPT ![p] = Reply(NewReq("store_logo_delete", u, Undef, Undef), 200, Undef)]
  /\ UNCHANGED <<db, seq, storeInfo, catalog, variant>>

\* GET /api/store-info: tax_rate 0.06 when the user has no row, else
\* sanitizeTaxRate(row.tax_rate)
StoreInfoGet(p, u) ==
  /\ Free(p)
  /\ LET tax_rate == IF storeInfo[u] = Undef THEN Num(DefaultTaxRate)
                     ELSE sanitizeTaxRate(storeInfo[u].tax_rate)
     IN req' = [req EXCEPT ![p] = Reply(NewReq("store_info_get", u, Undef, Undef), 200, tax_rate)]
  /\ UNCHANGED <<db, seq, storeInfo, catalog, variant>>

\* --------------------------------- PUT /api/products/variations/:id/price
\* UPDATE product_variations SET price WHERE id, user_id AND
\* COALESCE(archived, false) = false: one statement, committed on its own
VariationPriceUpdate(p, u, id, price) ==
  /\ Free(p)
  /\ LET r == NewReq("price_update", u, id, [price |-> price])
         hit == /\ id.t = "num"
                /\ id.v \in DOMAIN catalog
                /\ catalog[id.v].user_id = u
                /\ Coalesce(catalog[id.v].archived, Bool(FALSE)) = Bool(FALSE)
     IN IF price \in {Undef, Null} THEN
          /\ req' = [req EXCEPT ![p] = Reply(r, 400, Undef)]
          /\ catalog' = catalog
        ELSE IF ~hit THEN
          /\ req' = [req EXCEPT ![p] = Reply(r, 404, Undef)]
          /\ catalog' = catalog
        ELSE
          /\ req' = [req EXCEPT ![p] = Reply(r, 200, price)]
          /\ catalog' = [catalog EXCEPT ![id.v].price = price]
  /\ UNCHANGED <<db, seq, storeInfo, variant>>

\* ------------------------------------------------------- initial state
\* one catalog variation (id 1); the requests also name variation 9, which
\* the catalog does not have
Catalog0 ==
  [v \in {1} |-> [price |-> Num(10), product_name |-> Str("Business Cards"),
                  size |-> Str("3.5x2"), user_id |-> 1, archived |-> Null]]

Init ==
  /\ db = EmptyDb
  /\ seq = [estimates |-> 0, invoices |-> 0]
  /\ storeInfo = [u \in Users |-> Undef]
  /\ catalog = Catalog0
  /\ variant \in {"boolish", "toBool"}
  /\ req = [p \in Procs |-> Idle]

\* ------------------------------------------------------------ requests
VLine(variation_id, quantity, unit_price, taxable, display_name) ==
  [variation_id |-> variation_id, variationId |-> Undef, quantity |-> quantity,
   unit_price |-> unit_price, price |-> Undef, taxable |-> taxable,
   display_name |-> display_name, product_name |-> Undef]
\* invoice requests carry the price in `price`
ILine(variation_id, quantity, price, taxable, display_name) ==
  [variation_id |-> variation_id, variationId |-> Undef, quantity |-> quantity,
   unit_price |-> Undef, price |-> price, taxable |-> taxable,
   display_name |-> display_name, product_name |-> Undef]
CLine(product_name, price, quantity, taxable) ==
  [product_name |-> product_name, productName |-> Undef, size |-> Str("A4"),
   price |-> price, quantity |-> quantity, accessory |-> Undef, taxable |-> taxable]

EstimateBody(notes, variationItems, customItems) ==
  [customer_info |-> Str("acme"), notes |-> notes,
   variationItems |-> variationItems, customItems |-> customItems]
ConvertBody(discount_type, discount_value, notes) ==
  [discount_type |-> discount_type, discount_value |-> discount_value, notes |-> notes]
InvoiceBody(discount_type, discount_value, notes, variationItems, customItems, source_estimate_id) ==
  [customer_info |-> Str("acme"), notes |-> notes, discount_type |-> discount_type,
   discount_value |-> discount_value, variationItems |-> variationItems,
   customItems |-> customItems, source_estimate_id |-> source_estimate_id]

\* the lines of the worked example: 2 taxable cards at the catalog price 10
\* and one non-taxable custom line at 5
CardsLine == VLine(Num(1), Num(2), Undef, Undef, Undef)
OverrideLine == VLine(Num(1), Num(1), Num(7), Bool(FALSE), Str("Rush cards"))
MissingLine == VLine(Num(9), Num(1), Undef, Undef, Undef)
SetupLine == CLine(Str("Setup"), Num(5), Num(1), Bool(FALSE))
ShortNote == Text(1, 0, 12, 0)
InvoiceCardsLine == ILine(Num(1), Num(2), Num(10), Undef, Str("Business Cards"))

\* the requests about the first estimate and the first invoice
OwnerEstimateBody == EstimateBody(ShortNote, <<CardsLine>>, <<SetupLine>>)
OwnerUpdateBody == EstimateBody(Undef, <<OverrideLine>>, <<>>)
OwnerInvoiceBody ==
  InvoiceBody(Undef, Undef, ShortNote, <<InvoiceCardsLine>>, <<SetupLine>>, Undef)
OwnerNotesBody == [notes |-> Text(2, 0, 20, 0)]
OwnerConvertBody == ConvertBody(Undef, Undef, Undef)
FirstDocument == Num(1)
\* an invoice made from the first estimate, which POST /api/invoices removes
SourcedInvoiceBody ==
  InvoiceBody(Str("percent"), Num(50), ShortNote, <<InvoiceCardsLine>>, <<SetupLine>>,
              FirstDocument)

\* ---------------------------------------------------------- specifications
\* Every specification below runs the handlers above; they differ in the
\* requests that arrive.  Unless said otherwise requests arrive one at a
\* time, in slot 1.
DocIds == {Num(k) : k \in 1..MaxEst}

\* ---- SpecConvert: estimates are created and converted
\* estimates with a catalog line and a custom line, and with a line at 7
\* whose variation the catalog does not have; a convert with an amount
\* discount of 10 and one without a discount; price changes of variation 1
\* and of a variation the catalog does not have, to 12 and to none
ConvertBodies ==
  [estimate |-> {EstimateBody(ShortNote, <<CardsLine>>, <<SetupLine>>),
                 EstimateBody(Undef, <<OverrideLine, VLine(Num(9), Num(1), Num(7), Undef, Undef)>>,
                              <<>>)},
   convert |-> {ConvertBody(Str("amount"), Num(10), Undef), OwnerConvertBody},
   ids |-> {Num(1), Num(9)},
   prices |-> {Num(12), Null}]

NextConvert ==
  \/ \E b \in ConvertBodies.estimate : EstimateCreate(1, 1, b)
  \/ \E id \in DocIds, b \in ConvertBodies.convert : Convert(1, 1, id, b)
  \/ \E id \in ConvertBodies.ids, price \in ConvertBodies.prices :
       VariationPriceUpdate(1, 1, id, price)
  \/ EstimateCreateHeader(1)
  \/ EstimateVariationLine(1)
  \/ EstimateCustomLine(1)
  \/ EstimateWriteTotal(1)
  \/ EstimateCommit(1)
  \/ ConvertOwn(1)
  \/ ConvertHeader(1)
  \/ ConvertReadVariation(1)
  \/ ConvertReadCustom(1)
  \/ ConvertVariationLine(1)
  \/ ConvertCustomLine(1)
  \/ InvoiceWriteTotal(1)
  \/ TxDeleteEstimateItems(1)
  \/ TxDeleteCustomEstimateItems(1)
  \/ TxDeleteEstimate(1)
  \/ InvoiceCommit(1)
  \/ TxFail(1)

SpecConvert == Init /\ [][NextConvert]_vars

\* the effective values of a stored catalog line: the stored override, else
\* the catalog's value, else 0 and no label when the catalog has no such
\* variation
EffectivePrice(unit_price, variation_id) ==
  Coalesce(unit_price, canonicalOf(variation_id).price).v
EffectiveLabel(display_name, variation_id) ==
  Coalesce(display_name, canonicalOf(variation_id).product_name)
EffectiveTaxable(taxable) == Coalesce(taxable, Bool(TRUE)).v

Done(p, op, status) == req[p].op = op /\ req[p].pc = "done" /\ req[p].status = status

\* C1: after a convert-to-invoice request has committed, the estimate's
\* header and lines are gone and the invoice has one line per line that was
\* stored for the estimate, in order, with the same effective unit price,
\* quantity, taxable flag and label
C1_ConvertMirrorsEstimate ==
  \A p \in Procs : Done(p, "convert", 201) =>
    LET r == req[p]
        now == Committed(db)
        oldVar == r.pre.estimate_items[r.estId]
        oldCustom == r.pre.custom_estimate_items[r.estId]
        newVar == now.invoice_items[r.docId]
        newCustom == now.custom_invoice_items[r.docId]
    IN /\ \A e \in now.estimates : e.id # r.estId
       /\ now.estimate_items[r.estId] = <<>>
       /\ now.custom_estimate_items[r.estId] = <<>>
       /\ Len(newVar) = Len(oldVar)
       /\ \A k \in 1..Min(Len(oldVar), Len(newVar)) :
            /\ newVar[k].price = EffectivePrice(oldVar[k].unit_price, Num(oldVar[k].product_variation_id))
            /\ newVar[k].quantity = oldVar[k].quantity
            /\ newVar[k].taxable.v = EffectiveTaxable(oldVar[k].taxable)
            /\ EffectiveLabel(newVar[k].display_name, newVar[k].product_variation_id)
                 = EffectiveLabel(oldVar[k].display_name, Num(oldVar[k].product_variation_id))
       /\ Len(newCustom) = Len(oldCustom)
       /\ \A k \in 1..Min(Len(oldCustom), Len(newCustom)) :
            /\ newCustom[k].price = oldCustom[k].price
            /\ newCustom[k].quantity = oldCustom[k].quantity
            /\ newCustom[k].taxable = oldCustom[k].taxable
            /\ newCustom[k].product_name = oldCustom[k].product_name

\* C2: while a convert-to-invoice request has not committed, and after it
\* has failed at any statement, the committed store is the store the
\* request found
C2_ConvertFailureRestores ==
  \A p \in Procs :
    (req[p].op = "convert" /\ ~Done(p, "convert", 201)) => Committed(db) = req[p].pre

\* a convert that failed at DELETE FROM estimates, after it had copied the
\* lines of an estimate and deleted them
C2_Witness ==
  \E p \in Procs :
    /\ Done(p, "convert", 500)
    /\ req[p].at = "deleteHeader"
    /\ Len(req[p].pre.estimate_items[req[p].estId]) > 0
    /\ Len(req[p].pre.custom_estimate_items[req[p].estId]) > 0

\* ---- SpecRace: two requests at a time, each in its own transaction on its
\* own pooled connection, asking to convert estimates
NextRace ==
  \/ EstimateCreate(1, 1, OwnerEstimateBody)
  \/ \E p \in Procs, id \in DocIds : Convert(p, 1, id, OwnerConvertBody)
  \/ \E p \in Procs :
       \/ EstimateCreateHeader(p)
       \/ EstimateVariationLine(p)
       \/ EstimateCustomLine(p)
       \/ EstimateWriteTotal(p)
       \/ EstimateCommit(p)
       \/ ConvertOwn(p)
       \/ ConvertHeader(p)
       \/ ConvertReadVariation(p)
       \/ ConvertReadCustom(p)
       \/ ConvertVariationLine(p)
       \/ ConvertCustomLine(p)
       \/ InvoiceWriteTotal(p)
       \/ TxDeleteEstimateItems(p)
       \/ TxDeleteCustomEstimateItems(p)
       \/ TxDeleteEstimate(p)
       \/ InvoiceCommit(p)

SpecRace == Init /\ [][NextRace]_vars

\* C3: of two convert-to-invoice requests for the same estimate that run at
\* the same time, at most one commits an invoice
C3_AtMostOneInvoice ==
  \A p, q \in Procs :
    (/\ p # q
     /\ Done(p, "convert", 201)
     /\ Done(q, "convert", 201)
     /\ req[p].estId = req[q].estId)
    => ~(\E a, b \in Committed(db).invoices :
           a.id = req[p].docId /\ b.id = req[q].docId /\ a.id # b.id)

\* ---- SpecEst: estimates are created and replaced while the store's tax
\* rate changes
EstBodies ==
  {EstimateBody(ShortNote, <<>>, <<>>),
   EstimateBody(ShortNote, <<CardsLine>>, <<SetupLine>>),
   \* the second catalog line names no variation: the loop passes over it
   EstimateBody(Undef, <<OverrideLine, VLine(Undef, Num(4), Num(8), Undef, Undef), MissingLine>>,
                <<CLine(Str("Design"), Num(3), Num(2), Undef)>>)}
TaxRates == {Num(10)}

NextEst ==
  \/ \E b \in EstBodies : EstimateCreate(1, 1, b)
  \/ \E id \in DocIds, b \in EstBodies : EstimateUpdate(1, 1, id, b)
  \/ \E t \in TaxRates : StoreInfoSave(1, 1, t)
  \/ EstimateCreateHeader(1)
  \/ EstimateUpdateOwn(1)
  \/ EstimateUpdateHeader(1)
  \/ TxDeleteEstimateItems(1)
  \/ TxDeleteCustomEstimateItems(1)
  \/ EstimateVariationLine(1)
  \/ EstimateCustomLine(1)
  \/ EstimateWriteTotal(1)
  \/ EstimateCommit(1)
  \/ TxFail(1)

SpecEst == Init /\ [][NextEst]_vars

\* the Totals Calculator over stored lines: the sum of effective unit
\* price x quantity over the lines whose effective taxable flag is `flag`
RECURSIVE SumSeq(_)
SumSeq(s) == IF s = <<>> THEN 0 ELSE Head(s) + SumSeq(Tail(s))

StoredEstimateSubtotal(c, id, flag) ==
  LET v == c.estimate_items[id]
      k == c.custom_estimate_items[id]
  IN SumSeq([j \in 1..Len(v) |->
        IF EffectiveTaxable(v[j].taxable) = flag
        THEN EffectivePrice(v[j].unit_price, Num(v[j].product_variation_id)) * v[j].quantity
        ELSE 0])
     + SumSeq([j \in 1..Len(k) |->
        IF EffectiveTaxable(k[j].taxable) = flag THEN k[j].price * k[j].quantity ELSE 0])

StoredInvoiceSubtotal(c, id, flag) ==
  LET v == c.invoice_items[id]
      k == c.custom_invoice_items[id]
  IN SumSeq([j \in 1..Len(v) |->
        IF EffectiveTaxable(v[j].taxable) = flag THEN v[j].price * v[j].quantity ELSE 0])
     + SumSeq([j \in 1..Len(k) |->
        IF EffectiveTaxable(k[j].taxable) = flag THEN k[j].price * k[j].quantity ELSE 0])

\* taxable x (1 + rate) + non-taxable, in 1/Scale units
PreDiscountTotal(taxable, nonTaxable, rate) ==
  taxable * (Hundred + rate) * Hundred + nonTaxable * Scale

\* the total of a document after its discount
CalculatedTotal(taxable, nonTaxable, rate, discType, discVal) ==
  LET pre == PreDiscountTotal(taxable, nonTaxable, rate)
  IN IF discType = "amount"
     THEN Max(0, pre - Min(Max(discVal * Scale, 0), pre))
     ELSE LET pct == Min(Max(discVal, 0), Hundred)
          IN taxable * (Hundred - pct) * (Hundred + rate) + nonTaxable * (Hundred - pct) * Hundred

\* C5: after a successful estimate create or update the stored total is
\* taxable subtotal x (1 + the user's store tax rate) + non-taxable subtotal
\* over the lines stored for the estimate
C5_EstimateTotal ==
  \A p \in Procs :
    (Done(p, "estimate_create", 201) \/ Done(p, "estimate_update", 200)) =>
      LET c == Committed(db)
          id == req[p].docId
      IN \E e \in c.estimates :
           /\ e.id = id
           /\ e.total = PreDiscountTotal(StoredEstimateSubtotal(c, id, TRUE),
                                         StoredEstimateSubtotal(c, id, FALSE),
                                         TaxRateOf(req[p].user))

\* an estimate with taxable and non-taxable lines written under a tax rate
\* the store has set
C5_Witness ==
  \E p \in Procs :
    /\ Done(p, "estimate_update", 200)
    /\ storeInfo[req[p].user] # Undef
    /\ StoredEstimateSubtotal(Committed(db), req[p].docId, TRUE) > 0
    /\ StoredEstimateSubtotal(Committed(db), req[p].docId, FALSE) > 0

\* C8: after a successful estimate update the lines stored for the estimate
\* are exactly the resolved lines of the request, in order, none of the
\* earlier lines remaining; an update with no lines leaves the estimate with
\* no lines and total 0
C8_UpdateReplacesLines ==
  \A p \in Procs : Done(p, "estimate_update", 200) =>
    LET c == Committed(db)
        id == req[p].docId
        body == req[p].body
        kept == SelectSeq(body.variationItems, LAMBDA raw : ~ResolveVariation(raw).skip)
    IN /\ c.estimate_items[id] =
            [k \in 1..Len(kept) |-> EstimateItemRow(id, ResolveVariation(kept[k]), 0)]
       /\ c.custom_estimate_items[id] =
            [k \in 1..Len(body.customItems) |->
               CustomEstimateItemRow(id, ResolveCustom(body.customItems[k]), 0)]
       /\ (body.variationItems = <<>> /\ body.customItems = <<>>) =>
            /\ c.estimate_items[id] = <<>>
            /\ c.custom_estimate_items[id] = <<>>
            /\ \A e \in c.estimates : e.id = id => e.total = 0

\* an update that put other lines in the place of the lines the estimate had
C8_Witness ==
  \E p \in Procs :
    /\ Done(p, "estimate_update", 200)
    /\ req[p].pre.custom_estimate_items[req[p].docId] # <<>>
    /\ Committed(db).custom_estimate_items[req[p].docId] # <<>>
    /\ Committed(db).custom_estimate_items[req[p].docId]
         # req[p].pre.custom_estimate_items[req[p].docId]

\* C11: while an estimate create or update has not committed, and after it
\* has failed at any statement after BEGIN, the committed store is the store
\* the request found: no header and no lines of a new estimate, and the
\* previous header fields, lines and total of an updated one
C11_EstimateFailureRestores ==
  \A p \in Procs :
    (/\ req[p].op \in {"estimate_create", "estimate_update"}
     /\ ~Done(p, "estimate_create", 201)
     /\ ~Done(p, "estimate_update", 200))
    => Committed(db) = req[p].pre

\* an update that failed at COMMIT, after it had replaced the header fields,
\* the lines and the total of an estimate that had catalog and custom lines;
\* an earlier create had failed after it had drawn its id
C11_Witness ==
  \E p \in Procs :
    /\ Done(p, "estimate_update", 500)
    /\ req[p].at = "commit"
    /\ req[p].pre.estimate_items[req[p].docId] # <<>>
    /\ req[p].pre.custom_estimate_items[req[p].docId] # <<>>
    /\ Len(req[p].body.variationItems) > 1
    /\ seq.estimates > Cardinality(req[p].pre.estimates)

\* ---- SpecDelete: estimates are created and deleted; the delete handler
\* runs its three statements outside a transaction
NextDelete ==
  \/ \E b \in {OwnerEstimateBody, OwnerUpdateBody} : EstimateCreate(1, 1, b)
  \/ \E id \in DocIds : DocumentDelete(1, 1, id, "estimate")
  \/ EstimateCreateHeader(1)
  \/ EstimateVariationLine(1)
  \/ EstimateCustomLine(1)
  \/ EstimateWriteTotal(1)
  \/ EstimateCommit(1)
  \/ TxFail(1)
  \/ AutoOwn(1)
  \/ DeleteItems(1)
  \/ DeleteCustomItems(1)
  \/ DeleteHeader(1)
  \/ AutoFail(1)

SpecDelete == Init /\ [][NextDelete]_vars

\* C4: in every committed state the stored total of every estimate and
\* invoice is what the Totals Calculator gives for the lines stored for it
\* now, the tax rate in force when its lines were last written and its
\* stored discount
C4_TotalsMatchLines ==
  LET c == Committed(db)
  IN /\ \A e \in c.estimates :
          e.total = CalculatedTotal(StoredEstimateSubtotal(c, e.id, TRUE),
                                    StoredEstimateSubtotal(c, e.id, FALSE),
                                    e.rate, "amount", 0)
     /\ \A v \in c.invoices :
          v.total = CalculatedTotal(StoredInvoiceSubtotal(c, v.id, TRUE),
                                    StoredInvoiceSubtotal(c, v.id, FALSE),
                                    v.rate, v.discount_type, v.discount_value)

\* C12: a document delete that fails at any of its statements leaves the
\* header, the lines and the total of the document as the request found them
C12_DeleteAllOrNothing ==
  \A p \in Procs :
    (/\ req[p].op \in {"estimate_delete", "invoice_delete"}
     /\ req[p].pc = "done"
     /\ req[p].status = 500)
    => Committed(db) = req[p].pre

\* ---- SpecDiscount: invoices are made with a discount, by converting an
\* estimate and by POST /api/invoices
\* amount 10 (below the total), amount 45 (above the total and above the
\* largest amount a request may name), 50 percent, 150 percent
DiscountBodies ==
  LET Discounts == {<<"amount", 10>>, <<"amount", 45>>, <<"percent", 50>>, <<"percent", 150>>}
  IN [estimate |-> {OwnerEstimateBody, EstimateBody(ShortNote, <<>>, <<>>)},
      convert |-> {ConvertBody(Str(d[1]), Num(d[2]), Undef) : d \in Discounts},
      invoice |-> {InvoiceBody(Str(d[1]), Num(d[2]), ShortNote,
                               <<InvoiceCardsLine>>, <<SetupLine>>, Undef) : d \in Discounts}]

NextDiscount ==
  \/ \E b \in DiscountBodies.estimate : EstimateCreate(1, 1, b)
  \/ \E id \in DocIds, b \in DiscountBodies.convert : Convert(1, 1, id, b)
  \/ \E b \in DiscountBodies.invoice : InvoiceCreate(1, 1, b)
  \/ EstimateCreateHeader(1)
  \/ EstimateVariationLine(1)
  \/ EstimateCustomLine(1)
  \/ EstimateWriteTotal(1)
  \/ EstimateCommit(1)
  \/ ConvertOwn(1)
  \/ ConvertHeader(1)
  \/ ConvertReadVariation(1)
  \/ ConvertReadCustom(1)
  \/ ConvertVariationLine(1)
  \/ ConvertCustomLine(1)
  \/ InvoiceCreateHeader(1)
  \/ InvoiceVariationLine(1)
  \/ InvoiceCustomLine(1)
  \/ InvoiceWriteTotal(1)
  \/ TxDeleteEstimateItems(1)
  \/ TxDeleteCustomEstimateItems(1)
  \/ TxDeleteEstimate(1)
  \/ InvoiceCommit(1)

SpecDiscount == Init /\ [][NextDiscount]_vars

\* the invoice a finished request made
MadeInvoice(p) ==
  {v \in Committed(db).invoices :
     /\ Done(p, "convert", 201) \/ Done(p, "invoice_create", 201)
     /\ v.id = req[p].docId}

StoredPreDiscount(p, v) ==
  PreDiscountTotal(StoredInvoiceSubtotal(Committed(db), v.id, TRUE),
                   StoredInvoiceSubtotal(Committed(db), v.id, FALSE),
                   TaxRateOf(req[p].user))

\* C6: an invoice made with an amount discount d has the total
\* max(0, pre - clamp(d, 0, pre)), pre being the pre-discount total of its
\* stored lines at the user's tax rate
C6_AmountDiscount ==
  \A p \in Procs : \A v \in MadeInvoice(p) :
    v.discount_type = "amount" =>
      LET pre == StoredPreDiscount(p, v)
          d == v.discount_value * Scale
      IN v.total = Max(0, pre - Min(Max(d, 0), pre))

\* an invoice whose amount discount exceeds its pre-discount total, and one
\* whose discount is below it
C6_Witness ==
  \E p \in Procs : \E v \in MadeInvoice(p) :
    /\ v.discount_type = "amount"
    /\ StoredPreDiscount(p, v) > 0
    /\ v.discount_value * Scale > StoredPreDiscount(p, v)
    /\ \E w \in Committed(db).invoices :
         /\ w.discount_type = "amount"
         /\ w.total > 0
         /\ w.total < StoredPreDiscount(p, w)

\* C7: an invoice made with a percent discount d has the total
\* taxable x (1 - p) x (1 + rate) + non-taxable x (1 - p), p = clamp(d, 0, 100) / 100
C7_PercentDiscount ==
  \A p \in Procs : \A v \in MadeInvoice(p) :
    v.discount_type = "percent" =>
      LET pct == Min(Max(v.discount_value, 0), Hundred)
          taxable == StoredInvoiceSubtotal(Committed(db), v.id, TRUE)
          nonTaxable == StoredInvoiceSubtotal(Committed(db), v.id, FALSE)
          rate == TaxRateOf(req[p].user)
      IN v.total = taxable * (Hundred - pct) * (Hundred + rate)
                   + nonTaxable * (Hundred - pct) * Hundred

\* an invoice with taxable and non-taxable lines made with a 50 percent
\* discount
C7_Witness ==
  \E p \in Procs : \E v \in MadeInvoice(p) :
    /\ v.discount_type = "percent"
    /\ v.discount_value = 50
    /\ StoredInvoiceSubtotal(Committed(db), v.id, TRUE) > 0
    /\ StoredInvoiceSubtotal(Committed(db), v.id, FALSE) > 0
    /\ 2 * v.total = StoredPreDiscount(p, v)

\* C22: a committed convert-to-invoice gives every invoice line it wrote the
\* unit price and the taxable flag stored on its estimate line, whatever the
\* catalog price is by then, and the invoice total is the total of those
\* stored values
C22_ConvertUsesStoredValues ==
  \A p \in Procs : \A v \in MadeInvoice(p) :
    req[p].op = "convert" =>
      LET r == req[p]
          now == Committed(db)
          copied == SelectSeq(r.pre.estimate_items[r.estId],
                              LAMBDA ei : ei.product_variation_id \in DOMAIN catalog)
          oldCustom == r.pre.custom_estimate_items[r.estId]
          newVar == now.invoice_items[r.docId]
          amount(flag) ==
            SumSeq([k \in 1..Len(copied) |->
                      IF copied[k].taxable.v = flag
                      THEN copied[k].unit_price.v * copied[k].quantity ELSE 0])
            + SumSeq([k \in 1..Len(oldCustom) |->
                        IF oldCustom[k].taxable.v = flag
                        THEN oldCustom[k].price * oldCustom[k].quantity ELSE 0])
      IN /\ Len(newVar) = Len(copied)
         /\ \A k \in 1..Min(Len(newVar), Len(copied)) :
              /\ newVar[k].price = copied[k].unit_price.v
              /\ newVar[k].taxable = copied[k].taxable
         /\ v.total = CalculatedTotal(amount(TRUE), amount(FALSE), v.rate,
                                      v.discount_type, v.discount_value)

\* a convert of an estimate whose line was stored at the catalog price 10,
\* made after the catalog price became 12
C22_Witness ==
  \E p \in Procs : \E v \in MadeInvoice(p) :
    /\ req[p].op = "convert"
    /\ catalog[1].price = Num(12)
    /\ \E k \in 1..Len(req[p].pre.estimate_items[req[p].estId]) :
         LET ei == req[p].pre.estimate_items[req[p].estId][k]
         IN ei.product_variation_id = 1 /\ ei.unit_price = Num(10)
    /\ Len(Committed(db).invoice_items[v.id]) > 0
    /\ v.total > 0

\* C26: a committed convert-to-invoice without a discount, under the tax
\* rate the estimate's total was last written with, stores for the invoice
\* the total that was stored for the estimate
C26_ConvertKeepsTotal ==
  \A p \in Procs : \A v \in MadeInvoice(p) :
    \A e \in req[p].pre.estimates :
      (/\ req[p].op = "convert"
       /\ e.id = req[p].estId
       /\ v.discount_value = 0
       /\ v.rate = e.rate)
      => v.total = e.total

\* ---- SpecOwner: user 1 makes documents; both users ask to change, read,
\* delete and convert the first estimate and the first invoice
NextOwner ==
  \/ EstimateCreate(1, 1, OwnerEstimateBody)
  \/ InvoiceCreate(1, 1, OwnerInvoiceBody)
  \/ \E u \in Users, id \in {FirstDocument} :
       \/ EstimateUpdate(1, u, id, OwnerUpdateBody)
       \/ EstimateNotes(1, u, id, OwnerNotesBody)
       \/ ItemsGet(1, u, id, "estimate")
       \/ ItemsGet(1, u, id, "invoice")
       \/ DocumentDelete(1, u, id, "estimate")
       \/ DocumentDelete(1, u, id, "invoice")
       \/ InvoiceGet(1, u, id)
       \/ Convert(1, u, id, OwnerConvertBody)
  \/ EstimateCreateHeader(1)
  \/ EstimateUpdateOwn(1)
  \/ EstimateUpdateHeader(1)
  \/ EstimateVariationLine(1)
  \/ EstimateCustomLine(1)
  \/ EstimateWriteTotal(1)
  \/ EstimateCommit(1)
  \/ ConvertOwn(1)
  \/ ConvertHeader(1)
  \/ ConvertReadVariation(1)
  \/ ConvertReadCustom(1)
  \/ ConvertVariationLine(1)
  \/ ConvertCustomLine(1)
  \/ InvoiceCreateHeader(1)
  \/ InvoiceVariationLine(1)
  \/ InvoiceCustomLine(1)
  \/ InvoiceWriteTotal(1)
  \/ TxDeleteEstimateItems(1)
  \/ TxDeleteCustomEstimateItems(1)
  \/ TxDeleteEstimate(1)
  \/ InvoiceCommit(1)
  \/ AutoOwn(1)
  \/ EstimateNotesUpdate(1)
  \/ ItemsReadVariation(1)
  \/ ItemsReadCustom(1)
  \/ DeleteItems(1)
  \/ DeleteCustomItems(1)
  \/ DeleteHeader(1)

SpecOwner == Init /\ [][NextOwner]_vars

\* the request in slot p names a document that was there when the request
\* arrived and belonged to another user
OnForeignDocument(p) ==
  /\ req[p].pc = "done"
  /\ req[p].id.t = "num"
  /\ \/ /\ req[p].op \in {"estimate_update", "estimate_notes", "estimate_items",
                          "estimate_delete", "convert"}
        /\ \E e \in req[p].pre.estimates : e.id = req[p].id.v /\ e.user_id # req[p].user
     \/ /\ req[p].op \in {"invoice_items", "invoice_delete"}
        /\ \E v \in req[p].pre.invoices : v.id = req[p].id.v /\ v.user_id # req[p].user

TaxableInputs ==
  <<Undef, Bool(FALSE), Num(0), Str("0"), Str("false"), Bool(TRUE), Num(1), Str("1"), Str("true")>>

\* the bodies of the estimate requests and of the invoice requests
LineBodies ==
  [estimate |->
       {\* one catalog line and one custom line for each way of writing taxable
        EstimateBody(ShortNote,
                     [k \in 1..Len(TaxableInputs) |-> VLine(Num(1), Num(1), Undef, TaxableInputs[k], Undef)],
                     [k \in 1..Len(TaxableInputs) |-> CLine(Str("Setup"), Num(5), Num(1), TaxableInputs[k])]),
        \* quantity missing, zero and negative; price missing, null and
        \* negative; a variation the catalog does not have
        EstimateBody(ShortNote,
                     <<VLine(Num(1), Undef, Undef, Undef, Undef),
                       VLine(Num(1), Num(0), Null, Undef, Undef),
                       VLine(Num(1), Num(0 - 3), Num(7), Undef, Undef),
                       VLine(Num(1), Num(2), Num(0 - 7), Undef, Undef),
                       MissingLine>>,
                     <<CLine(Str("Credit"), Num(0 - 5), Num(0 - 3), Undef)>>),
        \* a quantity that is not a number
        EstimateBody(Undef, <<VLine(Num(1), Str("abc"), Undef, Undef, Undef)>>, <<>>),
        \* the same variation selected three times
        EstimateBody(Undef,
                     <<CardsLine, VLine(Num(1), Num(3), Num(8), Bool(FALSE), Str("Rush cards")), CardsLine>>,
                     <<>>)},
   invoice |->
       {InvoiceBody(Undef, Undef, ShortNote,
                    [k \in 1..Len(TaxableInputs) |-> ILine(Num(1), Num(1), Num(10), TaxableInputs[k], Undef)],
                    [k \in 1..Len(TaxableInputs) |-> CLine(Str("Setup"), Num(5), Num(1), TaxableInputs[k])],
                    Undef),
        \* a catalog line without a price
        InvoiceBody(Undef, Undef, ShortNote,
                    <<ILine(Num(1), Num(2), Undef, Undef, Undef), ILine(Num(1), Num(1), Num(7), Undef, Undef)>>,
                    <<>>, Undef)}]

NextLines ==
  \/ \E b \in LineBodies.estimate :
       \/ EstimateCreate(1, 1, b)
       \/ EstimateUpdate(1, 1, FirstDocument, b)
  \/ \E b \in LineBodies.invoice : InvoiceCreate(1, 1, b)
  \/ \E id \in DocIds : ItemsGet(1, 1, id, "estimate")
  \/ EstimateCreateHeader(1)
  \/ EstimateUpdateOwn(1)
  \/ EstimateUpdateHeader(1)
  \/ TxDeleteEstimateItems(1)
  \/ TxDeleteCustomEstimateItems(1)
  \/ EstimateVariationLine(1)
  \/ EstimateCustomLine(1)
  \/ EstimateWriteTotal(1)
  \/ EstimateCommit(1)
  \/ InvoiceCreateHeader(1)
  \/ InvoiceVariationLine(1)
  \/ InvoiceCustomLine(1)
  \/ InvoiceWriteTotal(1)
  \/ InvoiceCommit(1)
  \/ AutoOwn(1)
  \/ ItemsReadVariation(1)
  \/ ItemsReadCustom(1)

SpecLines == Init /\ [][NextLines]_vars

\* the request in slot p is an estimate create or update that has committed
WroteEstimate(p) == Done(p, "estimate_create", 201) \/ Done(p, "estimate_update", 200)

\* the entries of variationItems that carry a catalog reference, in order
Selected(p) == SelectSeq(req[p].body.variationItems, LAMBDA raw : ~ResolveVariation(raw).skip)

\* C13: every catalog and custom line stored for an estimate has a quantity
\* that is an integer and at least 1, whatever quantity the request gave
C13_StoredQuantityAtLeastOne ==
  LET c == Committed(db)
  IN \A id \in 1..MaxEst :
       /\ \A k \in 1..Len(c.estimate_items[id]) :
            c.estimate_items[id][k].quantity \in Int /\ c.estimate_items[id][k].quantity >= 1
       /\ \A k \in 1..Len(c.custom_estimate_items[id]) :
            /\ c.custom_estimate_items[id][k].quantity \in Int
            /\ c.custom_estimate_items[id][k].quantity >= 1

\* C14: every stored line has a unit price of at least 0 and every stored
\* document total is at least 0
C14_MoneyNonNegative ==
  LET c == Committed(db)
  IN /\ \A e \in c.estimates : e.total >= 0
     /\ \A v \in c.invoices : v.total >= 0
     /\ \A id \in 1..MaxEst :
          /\ \A k \in 1..Len(c.estimate_items[id]) : c.estimate_items[id][k].unit_price.v >= 0
          /\ \A k \in 1..Len(c.custom_estimate_items[id]) : c.custom_estimate_items[id][k].price >= 0
     /\ \A id \in 1..MaxInv :
          /\ \A k \in 1..Len(c.invoice_items[id]) : c.invoice_items[id][k].price >= 0
          /\ \A k \in 1..Len(c.custom_invoice_items[id]) : c.custom_invoice_items[id][k].price >= 0

\* C15: a catalog line written by an estimate create, an estimate update or
\* an invoice create has the unit price its entry gives when that is a
\* number; when the entry gives none (missing or null) it has the catalog
\* price of the variation, and 0 when the catalog has no such variation
C15_EffectiveUnitPrice ==
  \A p \in Procs :
    LET c == Committed(db)
        id == req[p].docId
        Expected(given, variation_id) ==
          IF given.t = "num" THEN given.v ELSE canonicalOf(variation_id).price.v
    IN /\ WroteEstimate(p) =>
            \A k \in 1..Min(Len(Selected(p)), Len(c.estimate_items[id])) :
              Selected(p)[k].unit_price.t \in {"num", "undef", "null"} =>
                c.estimate_items[id][k].unit_price.v
                  = Expected(Selected(p)[k].unit_price, Selected(p)[k].variation_id)
       /\ Done(p, "invoice_create", 201) =>
            \A k \in 1..Min(Len(req[p].body.variationItems), Len(c.invoice_items[id])) :
              req[p].body.variationItems[k].price.t \in {"num", "undef", "null"} =>
                c.invoice_items[id][k].price
                  = Expected(req[p].body.variationItems[k].price,
                             req[p].body.variationItems[k].variation_id)

C17_DegradedLineVisible ==
  \A p \in Procs :
    LET c == Committed(db)
        id == req[p].docId
        Degraded(row) == row.product_variation_id \notin DOMAIN catalog
    IN /\ (/\ req[p].op \in {"estimate_create", "estimate_update"}
            /\ req[p].pc = "done"
            /\ req[p].status # 403)
           => \A k \in 1..Len(Selected(p)) :
                Selected(p)[k] = MissingLine =>
                  /\ WroteEstimate(p)
                  /\ Len(c.estimate_items[id]) >= k
                  /\ c.estimate_items[id][k].product_variation_id = 9
                  /\ c.estimate_items[id][k].unit_price = Num(0)
       /\ Done(p, "estimate_items", 200) =>
            \A k \in 1..Len(c.estimate_items[id]) :
              Degraded(c.estimate_items[id][k]) =>
                \E j \in 1..Len(req[p].out) :
                  /\ req[p].out[j].type = "variation"
                  /\ req[p].out[j].variation_id = c.estimate_items[id][k].product_variation_id
                  /\ req[p].out[j].price = Num(0)
                  /\ Truthy(req[p].out[j].product_name)

\* C20: after an estimate create or update the estimate has one catalog
\* line row for each entry of variationItems that carries a catalog
\* reference, in order, entries with the same variation id included, each
\* row with the quantity and the overrides its entry gives
C20_NoDeduplication ==
  \A p \in Procs : WroteEstimate(p) =>
    LET rows == Committed(db).estimate_items[req[p].docId]
        entries == Selected(p)
    IN /\ Len(rows) = Len(entries)
       /\ \A k \in 1..Min(Len(rows), Len(entries)) :
            /\ Num(rows[k].product_variation_id) = Number(entries[k].variation_id)
            /\ (entries[k].quantity.t = "num" /\ entries[k].quantity.v >= 1)
                 => rows[k].quantity = entries[k].quantity.v
            /\ entries[k].unit_price.t = "num" => rows[k].unit_price = entries[k].unit_price
            /\ entries[k].taxable.t = "bool" => rows[k].taxable = entries[k].taxable
            /\ entries[k].display_name.t = "str" => rows[k].display_name = entries[k].display_name

\* an estimate made from three selections of the same variation: three rows,
\* the second with its own quantity, price, taxable flag and label
C20_Witness ==
  \E p \in Procs :
    /\ WroteEstimate(p)
    /\ Len(Selected(p)) = 3
    /\ \A k \in 1..3 : Selected(p)[k].variation_id = Num(1)
    /\ Len(Committed(db).estimate_items[req[p].docId]) = 3
    /\ Committed(db).estimate_items[req[p].docId][1].quantity = 2
    /\ Committed(db).estimate_items[req[p].docId][2].quantity = 3
    /\ Committed(db).estimate_items[req[p].docId][2].unit_price = Num(8)
    /\ Committed(db).estimate_items[req[p].docId][3]
         = Committed(db).estimate_items[req[p].docId][1]

\* ---- SpecTax: the store settings are written with tax rates in and out of
\* range, and with none, while documents are made
\* the tax_rate values of the settings request: 0.10, 1.50, -0.05, a word, none
SettingsRates == {Num(10), Num(150), Num(0 - 5), Str("abc"), Null}
NextTax ==
  \/ \E t \in SettingsRates : StoreInfoSave(1, 1, t)
  \/ StoreLogoSave(1, 1)
  \/ StoreLogoDelete(1, 1)
  \/ StoreInfoGet(1, 1)
  \/ EstimateCreate(1, 1, OwnerUpdateBody)
  \/ EstimateUpdate(1, 1, FirstDocument, OwnerUpdateBody)
  \/ InvoiceCreate(1, 1, OwnerInvoiceBody)
  \/ Convert(1, 1, FirstDocument, OwnerConvertBody)
  \/ EstimateCreateHeader(1)
  \/ EstimateUpdateOwn(1)
  \/ EstimateUpdateHeader(1)
  \/ TxDeleteEstimateItems(1)
  \/ TxDeleteCustomEstimateItems(1)
  \/ TxDeleteEstimate(1)
  \/ EstimateVariationLine(1)
  \/ EstimateWriteTotal(1)
  \/ EstimateCommit(1)
  \/ ConvertOwn(1)
  \/ ConvertHeader(1)
  \/ ConvertReadVariation(1)
  \/ ConvertReadCustom(1)
  \/ ConvertVariationLine(1)
  \/ InvoiceCreateHeader(1)
  \/ InvoiceVariationLine(1)
  \/ InvoiceCustomLine(1)
  \/ InvoiceWriteTotal(1)
  \/ InvoiceCommit(1)

SpecTax == Init /\ [][NextTax]_vars

\* C18: the tax rate of every totals computation (estimate create and
\* update, invoice create, convert) is in [0,1]; it is the rate of the
\* user's store settings when they hold one in [0,1], and 0.06 when the
\* user has no store settings, when they hold no rate and when they hold
\* one outside [0,1]
C18_TaxRateInRange ==
  LET InRange(s) == s # Undef /\ s.tax_rate.t = "num" /\ s.tax_rate.v \in 0..Hundred
      Expected(u) == IF InRange(storeInfo[u]) THEN storeInfo[u].tax_rate.v ELSE DefaultTaxRate
  IN /\ \A e \in db.estimates : e.rate \in 0..Hundred
     /\ \A v \in db.invoices : v.rate \in 0..Hundred
     /\ \A p \in Procs :
          /\ WroteEstimate(p) =>
               \A e \in Committed(db).estimates : e.id = req[p].docId => e.rate = Expected(req[p].user)
          /\ \A v \in MadeInvoice(p) : v.rate = Expected(req[p].user)

\* an estimate written at 0.06 under store settings whose rate a write out
\* of range had set back to 0.06, beside an invoice written at 0.10
C18_Witness ==
  \E p \in Procs :
    /\ WroteEstimate(p)
    /\ storeInfo[req[p].user] = [tax_rate |-> Num(DefaultTaxRate)]
    /\ \E e \in Committed(db).estimates :
         e.id = req[p].docId /\ e.rate = DefaultTaxRate /\ e.total > 0
    /\ \E v \in Committed(db).invoices : v.rate = 10 /\ v.total > 0

\* C27: the tax_rate GET /api/store-info returns to a user is the tax rate
\* the totals of that user's estimates and invoices are computed with,
\* whatever store settings the user has
C27_ReturnedRateIsTotalsRate ==
  \A p \in Procs :
    Done(p, "store_info_get", 200) => req[p].out = Num(TaxRateOf(req[p].user))

\* ---- SpecSource: user 1 makes an estimate and invoices that name
\* estimate 1 as their source, before and after it exists; in slot 2 user 2
\* makes invoices that name it too; any statement of a transaction of user 1
\* may fail
NextSource ==
  \/ EstimateCreate(1, 1, OwnerEstimateBody)
  \/ EstimateCreateHeader(1)
  \/ EstimateVariationLine(1)
  \/ EstimateCustomLine(1)
  \/ EstimateWriteTotal(1)
  \/ EstimateCommit(1)
  \/ InvoiceCreate(1, 1, SourcedInvoiceBody)
  \/ InvoiceCreate(2, 2, SourcedInvoiceBody)
  \/ \E p \in Procs :
       \/ InvoiceCreateHeader(p)
       \/ InvoiceVariationLine(p)
       \/ InvoiceCustomLine(p)
       \/ InvoiceWriteTotal(p)
       \/ InvoiceSourceOwn(p)
       \/ TxDeleteEstimateItems(p)
       \/ TxDeleteCustomEstimateItems(p)
       \/ TxDeleteEstimate(p)
       \/ InvoiceCommit(p)
  \/ TxFail(1)

SpecSource == Init /\ [][NextSource]_vars

\* C28: a statement of POST /api/invoices changes the committed estimates
\* and estimate lines only when it commits an invoice whose source estimate
\* the ownership query found, and then it removes that estimate with all its
\* lines and nothing else; a request whose source estimate belongs to
\* another user or to nobody is still answered with the new invoice
C28_SourceEstimateRemoved ==
  [][\A p \in Procs :
       (req[p].op = "invoice_create" /\ req'[p] # req[p]) =>
         LET r == req[p]
             before == Committed(db)
             after == Committed(db')
             committed == req'[p].pc = "done" /\ req'[p].status = 201
             Without(lines) ==
               [k \in DOMAIN lines |-> IF k = r.estId THEN <<>> ELSE lines[k]]
         IN /\ IF committed /\ r.own > 0
               THEN /\ after.estimates = {e \in before.estimates : e.id # r.estId}
                    /\ after.estimate_items = Without(before.estimate_items)
                    /\ after.custom_estimate_items = Without(before.custom_estimate_items)
               ELSE /\ after.estimates = before.estimates
                    /\ after.estimate_items = before.estimate_items
                    /\ after.custom_estimate_items = before.custom_estimate_items
            /\ (\/ after.estimates # before.estimates
                \/ after.estimate_items # before.estimate_items
                \/ after.custom_estimate_items # before.custom_estimate_items)
                 => \E e \in before.estimates : e.id = r.estId /\ e.user_id = r.user
            /\ committed =>
                 \E i \in after.invoices : i.id = req'[p].docId /\ i.user_id = r.user
            /\ req'[p].pc = "done" => req'[p].status \in {201, 500}
            /\ (r.pc = "sourceOwn" /\ OwnEstimate(Num(r.estId), r.user, p) = {})
                 => req'[p].pc \in {"commit", "done"}]_vars

\* an invoice made from the caller's estimate 1 is committed and the
\* estimate is gone; an invoice that names the estimate of another user is
\* committed and the estimate is still there
C28_Witness ==
  /\ \E p \in Procs :
       /\ Done(p, "invoice_create", 201) /\ req[p].own > 0
       /\ \E e \in req[p].pre.estimates : e.id = 1 /\ e.user_id = req[p].user
       /\ Committed(db).estimates = {}
       /\ Committed(db).estimate_items[1] = <<>>
  /\ \E p \in Procs :
       /\ Done(p, "invoice_create", 201) /\ req[p].user = 2 /\ req[p].estId = 1
       /\ req[p].own = 0
       /\ \E e \in req[p].pre.estimates : e.id = 1 /\ e.user_id = 1

\* ---- SpecForeign: user 1 makes an estimate and an invoice; user 2 asks
\* for them at every endpoint that takes a document id, two requests at a
\* time
NextForeign ==
  \/ EstimateCreate(1, 1, OwnerEstimateBody)
  \/ InvoiceCreate(1, 1, OwnerInvoiceBody)
  \/ \E p \in Procs :
       \/ EstimateUpdate(p, 2, FirstDocument, OwnerUpdateBody)
       \/ EstimateNotes(p, 2, FirstDocument, OwnerNotesBody)
       \/ ItemsGet(p, 2, FirstDocument, "estimate")
       \/ ItemsGet(p, 2, FirstDocument, "invoice")
       \/ DocumentDelete(p, 2, FirstDocument, "estimate")
       \/ DocumentDelete(p, 2, FirstDocument, "invoice")
       \/ InvoiceGet(p, 2, FirstDocument)
       \/ Convert(p, 2, FirstDocument, OwnerConvertBody)
       \/ EstimateUpdateOwn(p)
       \/ AutoOwn(p)
       \/ ConvertOwn(p)
  \/ EstimateCreateHeader(1)
  \/ EstimateVariationLine(1)
  \/ EstimateCustomLine(1)
  \/ EstimateWriteTotal(1)
  \/ EstimateCommit(1)
  \/ InvoiceCreateHeader(1)
  \/ InvoiceVariationLine(1)
  \/ InvoiceCustomLine(1)
  \/ InvoiceWriteTotal(1)
  \/ InvoiceCommit(1)

SpecForeign == Init /\ [][NextForeign]_vars

\* C19: every document endpoint answers a request for a document of
\* another user with the same outcome class: of two such requests, to any
\* of estimate update, notes, items, delete, convert and invoice header
\* read, items, delete, both are answered access denied (403) or both are
\* answered not found (404)
C19_UniformForeignOutcome ==
  LET Foreign(p) ==
        \/ OnForeignDocument(p)
        \/ /\ req[p].op = "invoice_get" /\ req[p].pc = "done" /\ req[p].id.t = "num"
           /\ \E v \in req[p].pre.invoices : v.id = req[p].id.v /\ v.user_id # req[p].user
  IN \A p, q \in Procs :
       (Foreign(p) /\ Foreign(q)) =>
         /\ req[p].status \in {403, 404}
         /\ req[p].status = req[q].status

\* ---- SpecShared: user 1 writes the first estimate in slot 1 (create,
\* update, convert) while reading its items and deleting it in slot 2
NextShared ==
  \/ EstimateCreate(1, 1, OwnerEstimateBody)
  \/ EstimateUpdate(1, 1, FirstDocument, OwnerUpdateBody)
  \/ Convert(1, 1, FirstDocument, OwnerConvertBody)
  \/ ItemsGet(2, 1, FirstDocument, "estimate")
  \/ DocumentDelete(2, 1, FirstDocument, "estimate")
  \/ EstimateCreateHeader(1)
  \/ EstimateUpdateOwn(1)
  \/ EstimateUpdateHeader(1)
  \/ EstimateVariationLine(1)
  \/ EstimateCustomLine(1)
  \/ EstimateWriteTotal(1)
  \/ EstimateCommit(1)
  \/ ConvertOwn(1)
  \/ ConvertHeader(1)
  \/ ConvertReadVariation(1)
  \/ ConvertReadCustom(1)
  \/ ConvertVariationLine(1)
  \/ ConvertCustomLine(1)
  \/ InvoiceWriteTotal(1)
  \/ TxDeleteEstimateItems(1)
  \/ TxDeleteCustomEstimateItems(1)
  \/ TxDeleteEstimate(1)
  \/ InvoiceCommit(1)
  \/ AutoOwn(2)
  \/ ItemsReadVariation(2)
  \/ ItemsReadCustom(2)
  \/ DeleteItems(2)
  \/ DeleteCustomItems(2)
  \/ DeleteHeader(2)

SpecShared == Init /\ [][NextShared]_vars

\* C24: the list a read-items request returns while the estimate is being
\* updated is the full line set of one committed version of the estimate,
\* which is the line set of the create request or of the update request
C24_ReadSeesOneVersion ==
  \A p \in Procs :
    Done(p, "estimate_items", 200) =>
      LET returned == [k \in 1..Len(req[p].out) |->
                        <<req[p].out[k].type, req[p].out[k].price.v, req[p].out[k].quantity>>]
          LinesOfVersion(body) ==
            [k \in 1..Len(body.variationItems) |->
               <<"variation", ResolveVariation(body.variationItems[k]).unit_price.v,
                 ResolveVariation(body.variationItems[k]).quantity.v>>]
            \o [k \in 1..Len(body.customItems) |->
                  <<"custom", ResolveCustom(body.customItems[k]).price.v,
                    ResolveCustom(body.customItems[k]).quantity.v>>]
      IN returned \in {LinesOfVersion(OwnerEstimateBody), LinesOfVersion(OwnerUpdateBody)}

\* C25: when no request is under way, every estimate line stored belongs to
\* an estimate header that is stored
C25_NoOrphanLines ==
  (\A p \in Procs : Free(p)) =>
    LET c == Committed(db)
    IN \A id \in 1..MaxEst :
         (c.estimate_items[id] # <<>> \/ c.custom_estimate_items[id] # <<>>)
           => \E e \in c.estimates : e.id = id

\* ---- SpecNotes: documents are made, changed, converted and deleted, with
\* notes at and over the caps and with ids that are not numbers
\* the requests of SpecNotes, documents without lines: estimate notes of
\* 150 characters, of 151 characters and of 150 characters between two
\* blanks; invoice notes of 2000 and of 2001 characters; and the path
\* parameters /abc and /1abc, which are not decimal numbers
NotesBodies ==
  LET EstimateNotesInputs == {Text(1, 0, EstimateNotesCap, 0), Text(1, 0, EstimateNotesCap + 1, 0),
                              Text(1, 1, EstimateNotesCap, 1)}
      InvoiceNotesInputs == {Text(2, 0, InvoiceNotesCap, 0), Text(2, 0, InvoiceNotesCap + 1, 0)}
  IN [estimate |-> {EstimateBody(n, <<>>, <<>>) : n \in EstimateNotesInputs},
      notes |-> {[notes |-> n] : n \in EstimateNotesInputs},
      invoice |-> {InvoiceBody(Undef, Undef, n, <<>>, <<>>, Undef) : n \in InvoiceNotesInputs},
      convert |-> {ConvertBody(Undef, Undef, n) : n \in InvoiceNotesInputs \cup {Undef}},
      ids |-> DocIds \cup {Str("abc"), Str("1abc")}]

NextNotes ==
  \/ \E b \in NotesBodies.estimate : EstimateCreate(1, 1, b)
  \/ \E b \in NotesBodies.estimate, id \in NotesBodies.ids : EstimateUpdate(1, 1, id, b)
  \/ \E b \in NotesBodies.notes, id \in DocIds : EstimateNotes(1, 1, id, b)
  \/ \E b \in NotesBodies.invoice : InvoiceCreate(1, 1, b)
  \/ \E b \in NotesBodies.convert, id \in NotesBodies.ids : Convert(1, 1, id, b)
  \/ \E id \in NotesBodies.ids : DocumentDelete(1, 1, id, "estimate")
  \/ DeleteItems(1)
  \/ DeleteCustomItems(1)
  \/ DeleteHeader(1)
  \/ EstimateCreateHeader(1)
  \/ EstimateUpdateOwn(1)
  \/ EstimateUpdateHeader(1)
  \/ EstimateWriteTotal(1)
  \/ EstimateCommit(1)
  \/ AutoOwn(1)
  \/ EstimateNotesUpdate(1)
  \/ ConvertOwn(1)
  \/ ConvertHeader(1)
  \/ ConvertReadVariation(1)
  \/ ConvertReadCustom(1)
  \/ InvoiceCreateHeader(1)
  \/ InvoiceWriteTotal(1)
  \/ TxDeleteEstimateItems(1)
  \/ TxDeleteCustomEstimateItems(1)
  \/ TxDeleteEstimate(1)
  \/ InvoiceCommit(1)

SpecNotes == Init /\ [][NextNotes]_vars

\* C10: a request whose notes are longer than the cap of its document kind
\* (150 characters after trimming for an estimate, 2000 for an invoice) is
\* rejected and stores nothing; the notes are never cut to the cap
C10_OverCapNotesRejected ==
  \A p \in Procs : req[p].pc = "done" =>
    /\ (/\ req[p].op \in {"estimate_create", "estimate_update", "estimate_notes"}
        /\ TextLen(Trim(NotesToString(req[p].body.notes))) > EstimateNotesCap)
       => (req[p].status = 400 /\ Committed(db) = req[p].pre)
    /\ (/\ req[p].op \in {"invoice_create", "convert"}
        /\ TextLen(NotesToString(req[p].body.notes)) > InvoiceNotesCap)
       => (req[p].status \notin {200, 201} /\ Committed(db) = req[p].pre)

\* C23: an estimate update, delete or convert whose id is not a number, and
\* an estimate create, update or notes patch whose notes are over the cap,
\* is answered with a client error before its first statement, and the
\* store is as the request found it
C23_ValidationBeforeWrite ==
  \A p \in Procs : req[p].pc = "done" =>
    ((\/ /\ req[p].op \in {"estimate_update", "estimate_delete", "convert"}
         /\ req[p].id.t # "num"
      \/ /\ req[p].op \in {"estimate_create", "estimate_update", "estimate_notes"}
         /\ TextLen(Trim(NotesToString(req[p].body.notes))) > EstimateNotesCap)
     => /\ req[p].status = 400
        /\ req[p].at = "start"
        /\ db = req[p].pre)

\* C21: the header of the invoice a committed convert-to-invoice wrote has
\* the customer info of the estimate, the discount type and value of the
\* request, and the notes of the request when it supplies notes, else the
\* notes of the estimate
C21_ConvertHeader ==
  \A p \in Procs : \A v \in MadeInvoice(p) :
    req[p].op = "convert" =>
      LET body == req[p].body
          est == CHOOSE e \in req[p].pre.estimates : e.id = req[p].estId
          asked == IF body.discount_value.t = "num" THEN body.discount_value.v ELSE 0
          supplied == body.notes.t \notin {"undef", "null"}
      IN /\ v.user_id = est.user_id
         /\ v.customer_info = est.customer_info
         /\ v.discount_type = (IF body.discount_type \in {Str("percent"), Str("PERCENT")}
                               THEN "percent" ELSE "amount")
         /\ v.discount_value = Max(0, Min(asked, IF v.discount_type = "percent"
                                                  THEN MaxPercent ELSE MaxAmountDiscount))
         /\ v.notes = (IF supplied THEN body.notes ELSE NotesToString(est.notes))

\* ---- SpecPool: user 1 makes an estimate; both users update and convert
\* it, with well-formed and malformed ids; user 1 makes an invoice from it;
\* any statement of a transaction may fail
NextPool ==
  \/ EstimateCreate(1, 1, OwnerEstimateBody)
  \/ InvoiceCreate(1, 1, SourcedInvoiceBody)
  \/ \E u \in Users, id \in NotesBodies.ids :
       \/ EstimateUpdate(1, u, id, OwnerUpdateBody)
       \/ Convert(1, u, id, OwnerConvertBody)
  \/ EstimateCreateHeader(1)
  \/ EstimateUpdateOwn(1)
  \/ EstimateUpdateHeader(1)
  \/ EstimateVariationLine(1)
  \/ EstimateCustomLine(1)
  \/ EstimateWriteTotal(1)
  \/ EstimateCommit(1)
  \/ ConvertOwn(1)
  \/ ConvertHeader(1)
  \/ ConvertReadVariation(1)
  \/ ConvertReadCustom(1)
  \/ ConvertVariationLine(1)
  \/ ConvertCustomLine(1)
  \/ InvoiceCreateHeader(1)
  \/ InvoiceVariationLine(1)
  \/ InvoiceCustomLine(1)
  \/ InvoiceWriteTotal(1)
  \/ InvoiceSourceOwn(1)
  \/ TxDeleteEstimateItems(1)
  \/ TxDeleteCustomEstimateItems(1)
  \/ TxDeleteEstimate(1)
  \/ InvoiceCommit(1)
  \/ TxFail(1)

SpecPool == Init /\ [][NextPool]_vars

\* C29: estimate create, estimate update, convert-to-invoice and invoice
\* create hold their pooled client, with its transaction open and the client
\* not released, from the moment they acquire it until they answer; once
\* they have answered (committed, access denied, or failed and rolled back)
\* the client has been released exactly once and its transaction is closed;
\* a request refused before it acquired a client releases none
C29_ClientReleasedOnce ==
  \A p \in Procs :
    req[p].op \in TxOps =>
      IF req[p].pc = "done"
      THEN IF req[p].client = "none"
           THEN req[p].releases = 0 /\ req[p].status = 400
           ELSE req[p].client = "released" /\ req[p].releases = 1 /\ ~req[p].tx
      ELSE req[p].client = "held" /\ req[p].releases = 0 /\ req[p].tx

\* a convert-to-invoice of another user's estimate is answered access denied
\* after its ROLLBACK, its client released once
C29_Witness ==
  \E p \in Procs :
    /\ Done(p, "convert", 403) /\ req[p].user = 2
    /\ \E e \in Committed(db).estimates : e.id = req[p].estId /\ e.user_id = 1
    /\ req[p].client = "released" /\ req[p].releases = 1 /\ ~req[p].tx

\* ---- SpecAmount: the amount discount as a function.  The subtotals run
\* over negative, zero and positive amounts on both sides of the largest
\* discount, the tax rate over 0, 0.06, 0.5 and 1, and the discount over
\* the values clamp(discVal, 0, 1e12) leaves: none, small, and the cap
InitAmount ==
  /\ db = EmptyDb
  /\ seq = [estimates |-> 0, invoices |-> 0]
  /\ storeInfo = [u \in Users |-> Undef]
  /\ catalog = Catalog0
  /\ variant \in {"boolish", "toBool"}
  /\ \E taxableSubtotal \in {0 - 3, 0, 2, 50}, nonTaxableSubtotal \in {0 - 3, 0, 2, 50},
        taxRate \in {0, 6, 50, 100}, discVal \in {0, 1, 5, MaxAmountDiscount} :
       req = [p \in Procs |->
                [op |-> "amount_discount", pc |-> "start", discType |-> "amount",
                 discVal |-> discVal, taxableSubtotal |-> taxableSubtotal,
                 nonTaxableSubtotal |-> nonTaxableSubtotal, taxRate |-> taxRate, total |-> 0]]

\* if (discType === 'amount') { ... finalTotal = ... }
AmountDiscount(p) ==
  /\ At(p, "amount_discount", "start")
  /\ LET r == req[p]
         finalTotal == InvoiceTotal(r.discType, r.discVal, r.taxableSubtotal,
                                    r.nonTaxableSubtotal, r.taxRate)
     IN req' = [req EXCEPT ![p] = [r EXCEPT !.total = finalTotal, !.pc = "done"]]
  /\ UNCHANGED <<db, seq, storeInfo, catalog, variant>>

SpecAmount == InitAmount /\ [][\E p \in Procs : AmountDiscount(p)]_vars

\* C30: for every taxable and non-taxable subtotal, tax rate in [0, 1] and
\* discount value d in [0, 1e12], the total after an amount discount is the
\* same in both versions of the files: with base = taxable * (1 + rate) +
\* non-taxable, max(0, base - clamp(d, 0, base)) of the one equals
\* max(0, base - clamp(d, 0, 1e12)) of the other, and it is what the handler
\* computes
C30_AmountVersionsAgree ==
  \A p \in Procs :
    req[p].op = "amount_discount" =>
      LET r == req[p]
          baseGrand == r.taxableSubtotal * (Hundred + r.taxRate) * Hundred
                         + r.nonTaxableSubtotal * Scale
      IN /\ AmountTotal("boolish", r.discVal, baseGrand)
              = AmountTotal("toBool", r.discVal, baseGrand)
         /\ r.pc = "done" => r.total = AmountTotal("boolish", r.discVal, baseGrand)

\* a discount above a positive base, where the two clamps differ: the total
\* computed is 0
C30_Witness ==
  LET baseGrand(r) == r.taxableSubtotal * (Hundred + r.taxRate) * Hundred
                        + r.nonTaxableSubtotal * Scale
  IN \E p \in Procs :
       /\ req[p].op = "amount_discount" /\ req[p].pc = "done"
       /\ baseGrand(req[p]) > 0
       /\ req[p].discVal * Scale > baseGrand(req[p])
       /\ req[p].total = 0

\* ---- Spec: every handler, one request at a time, on the first estimate
\* and the first invoice
Next ==
  \/ EstimateCreate(1, 1, OwnerEstimateBody)
  \/ \E b \in {OwnerInvoiceBody, SourcedInvoiceBody} : InvoiceCreate(1, 1, b)
  \/ \E t \in TaxRates : StoreInfoSave(1, 1, t)
  \/ EstimateUpdate(1, 1, FirstDocument, OwnerUpdateBody)
  \/ EstimateNotes(1, 1, FirstDocument, OwnerNotesBody)
  \/ \E kind \in {"estimate", "invoice"} :
       \/ ItemsGet(1, 1, FirstDocument, kind)
       \/ DocumentDelete(1, 1, FirstDocument, kind)
  \/ InvoiceGet(1, 1, FirstDocument)
  \/ Convert(1, 1, FirstDocument, OwnerConvertBody)
  \/ EstimateCreateHeader(1)
  \/ EstimateUpdateOwn(1)
  \/ EstimateUpdateHeader(1)
  \/ EstimateVariationLine(1)
  \/ EstimateCustomLine(1)
  \/ EstimateWriteTotal(1)
  \/ EstimateCommit(1)
  \/ ConvertOwn(1)
  \/ ConvertHeader(1)
  \/ ConvertReadVariation(1)
  \/ ConvertReadCustom(1)
  \/ ConvertVariationLine(1)
  \/ ConvertCustomLine(1)
  \/ InvoiceCreateHeader(1)
  \/ InvoiceVariationLine(1)
  \/ InvoiceCustomLine(1)
  \/ InvoiceWriteTotal(1)
  \/ InvoiceSourceOwn(1)
  \/ TxDeleteEstimateItems(1)
  \/ TxDeleteCustomEstimateItems(1)
  \/ TxDeleteEstimate(1)
  \/ InvoiceCommit(1)
  \/ TxFail(1)
  \/ AutoOwn(1)
  \/ EstimateNotesUpdate(1)
  \/ ItemsReadVariation(1)
  \/ ItemsReadCustom(1)
  \/ DeleteItems(1)
  \/ DeleteCustomItems(1)
  \/ DeleteHeader(1)
  \/ AutoFail(1)

Spec == Init /\ [][Next]_vars

====
